---- MODULE Spec2Model ----
(***************************************************************************)
(* Model of the govctl power-governance daemon (src/govctl_service.py):    *)
(* the battery aggregator status(), the configuration watcher              *)
(* load_config(), the applier set_governor() with its TDP backends, and    *)
(* the main loop with its hysteresis between Normal and Powersave.         *)
(***************************************************************************)
EXTENDS Integers, Sequences, FiniteSets, TLC

(***************************************************************************)
(* Python float arithmetic.  status() computes                             *)
(*     (1 - ((full - now) / full)) * 100                                   *)
(* in IEEE-754 binary64: every operation is rounded to MantBits            *)
(* significant bits, to nearest, ties to even.  A magnitude is carried as  *)
(* a fixed-point number in base 2^LimbBits, most significant limb first,   *)
(* with IntLimbs limbs before the point and FracLimbs after it.  The       *)
(* carrier is exact for the values that arise from the bounded attribute   *)
(* values below: quotients of integers below 2^(FracLimbs * LimbBits -     *)
(* MantBits - 1) and results below 2^(IntLimbs * LimbBits).                *)
(***************************************************************************)
MantBits == 53
LimbBits == 13
IntLimbs == 1
FracLimbs == 5
LimbBase == 2 ^ LimbBits
NL == IntLimbs + FracLimbs

\* a function on 1..n as an explicit tuple
Tup(f) == f \o << >>

ZeroMag == Tup([i \in 1..NL |-> 0])

\* the unsigned integer n (0 <= n < 2^(IntLimbs * LimbBits)) as a magnitude
IntToMag(n) ==
    Tup([i \in 1..NL |->
            IF i <= IntLimbs THEN (n \div (LimbBase ^ (IntLimbs - i))) % LimbBase
            ELSE 0])

RECURSIVE IntPart(_, _)
\* the value of limbs 1..i of the integer part, i.e. floor of the magnitude
IntPart(m, i) ==
    IF i = 0 THEN 0 ELSE m[i] * (LimbBase ^ (IntLimbs - i)) + IntPart(m, i - 1)

RECURSIVE FracDigits(_, _, _)
\* the first n base-2^LimbBits digits of r/b (0 <= r < b), and the remainder
FracDigits(r, b, n) ==
    IF n = 0 THEN [limbs |-> << >>, rem |-> r]
    ELSE LET rest == FracDigits((r * LimbBase) % b, b, n - 1)
         IN  [limbs |-> <<(r * LimbBase) \div b>> \o rest.limbs, rem |-> rest.rem]

\* number of significant bits of a limb value
BitLen(v) ==
    CHOOSE b \in 0..LimbBits : v < 2 ^ b /\ (b = 0 \/ v >= 2 ^ (b - 1))

\* index of the leading nonzero limb, 0 for zero
LeadLimb(m) ==
    IF \E i \in 1..NL : m[i] # 0
    THEN CHOOSE i \in 1..NL : m[i] # 0 /\ \A j \in 1..(i - 1) : m[j] = 0
    ELSE 0

RECURSIVE AddUnit(_, _, _)
\* add u (0 < u < LimbBase) into limb i; the carry ripples towards limb 1
AddUnit(m, i, u) ==
    IF i = 0 THEN m
    ELSE IF m[i] + u < LimbBase THEN [m EXCEPT ![i] = m[i] + u]
    ELSE AddUnit([m EXCEPT ![i] = m[i] + u - LimbBase], i - 1, 1)

\* round an exact magnitude (sticky: nonzero digits exist beyond the last
\* limb) to MantBits significant bits, to nearest, ties to even
RoundMag(m, sticky) ==
    LET h == LeadLimb(m)
        \* bit offset of the last kept bit, counted from the top of limb h
        off == (LimbBits - BitLen(m[h])) + MantBits - 1
        hl == h + (off \div LimbBits)
        unit == 2 ^ (LimbBits - 1 - (off % LimbBits))
    IN  IF h = 0 \/ hl > NL THEN m
        ELSE LET low == m[hl] % unit
                 next == IF hl < NL THEN m[hl + 1] ELSE 0
                 tail == IF unit > 1
                         THEN sticky \/ \E j \in (hl + 1)..NL : m[j] # 0
                         ELSE sticky \/ \E j \in (hl + 2)..NL : m[j] # 0
                 \* twice the discarded part against one unit of the last place
                 twice == IF unit > 1 THEN low * 2 ELSE next * 2
                 one == IF unit > 1 THEN unit ELSE LimbBase
                 odd == (m[hl] \div unit) % 2 = 1
                 kept == Tup([i \in 1..NL |->
                                 IF i < hl THEN m[i]
                                 ELSE IF i = hl THEN m[i] - low ELSE 0])
             IN  IF twice > one \/ (twice = one /\ (tail \/ odd))
                 THEN AddUnit(kept, hl, unit) ELSE kept

RECURSIVE AddCarry(_, _, _)
AddCarry(x, y, i) ==
    IF i = NL THEN 0
    ELSE (x[i + 1] + y[i + 1] + AddCarry(x, y, i + 1)) \div LimbBase

AddMag(x, y) ==
    Tup([i \in 1..NL |-> (x[i] + y[i] + AddCarry(x, y, i)) % LimbBase])

RECURSIVE Borrow(_, _, _)
Borrow(x, y, i) ==
    IF i = NL THEN 0
    ELSE IF x[i + 1] - y[i + 1] - Borrow(x, y, i + 1) < 0 THEN 1 ELSE 0

\* x - y for magnitudes x >= y
SubMag(x, y) ==
    Tup([i \in 1..NL |->
            (x[i] - y[i] - Borrow(x, y, i) + LimbBase) % LimbBase])

RECURSIVE MulCarry(_, _, _)
MulCarry(x, k, i) ==
    IF i = NL THEN 0 ELSE (x[i + 1] * k + MulCarry(x, k, i + 1)) \div LimbBase

\* the exact product of a magnitude and the small integer k
MulMag(x, k) ==
    Tup([i \in 1..NL |-> (x[i] * k + MulCarry(x, k, i)) % LimbBase])

LessMag(x, y) ==
    \E i \in 1..NL : x[i] < y[i] /\ \A j \in 1..(i - 1) : x[j] = y[j]

Abs(n) == IF n < 0 THEN -n ELSE n

\* a float: sign and magnitude
FloatOfInt(n) == [neg |-> n < 0, mag |-> IntToMag(Abs(n))]

\* Python's int / int (true division): the correctly rounded quotient
FloatDiv(a, b) ==
    LET n == Abs(a)
        d == Abs(b)
        f == FracDigits(n % d, d, FracLimbs)
        exact == SubSeq(IntToMag(n \div d), 1, IntLimbs) \o f.limbs
    IN  [neg |-> (a < 0) # (b < 0), mag |-> RoundMag(exact, f.rem # 0)]

\* x - y in binary64
FloatSub(x, y) ==
    IF x.neg # y.neg
    THEN [neg |-> x.neg, mag |-> RoundMag(AddMag(x.mag, y.mag), FALSE)]
    ELSE IF LessMag(x.mag, y.mag)
         THEN [neg |-> ~x.neg, mag |-> RoundMag(SubMag(y.mag, x.mag), FALSE)]
         ELSE [neg |-> x.neg, mag |-> RoundMag(SubMag(x.mag, y.mag), FALSE)]

\* x + y in binary64
FloatAdd(x, y) == FloatSub(x, [y EXCEPT !.neg = ~y.neg])

\* x * k in binary64, k a small positive integer
FloatMulInt(x, k) == [neg |-> x.neg, mag |-> RoundMag(MulMag(x.mag, k), FALSE)]

\* x < y on floats (-0.0 = 0.0)
FloatLess(x, y) ==
    LET xz == x.mag = ZeroMag
        yz == y.mag = ZeroMag
    IN  IF xz /\ yz THEN FALSE
        ELSE IF x.neg /\ ~xz
             THEN IF y.neg /\ ~yz THEN LessMag(y.mag, x.mag) ELSE TRUE
             ELSE IF y.neg /\ ~yz THEN FALSE ELSE LessMag(x.mag, y.mag)

\* Python's int(float): truncation towards zero
FloatTrunc(x) == IF x.neg THEN -IntPart(x.mag, IntLimbs) ELSE IntPart(x.mag, IntLimbs)

\* Python's min(a, b) on numbers: b only when b < a
FloatMin(a, b) == IF FloatLess(b, a) THEN b ELSE a

\* (1 - ((full - now) / full)) * 100 as status() evaluates it (full # 0)
Capacity(now, full) ==
    FloatMulInt(FloatSub(FloatOfInt(1), FloatDiv(full - now, full)), 100)

(***************************************************************************)
(* Text of sysfs attribute files: sequences of one-character strings.      *)
(***************************************************************************)
Digits == <<"0", "1", "2", "3", "4", "5", "6", "7", "8", "9">>
Whitespace == {" ", "\n", "\t"}

IsDigit(c) == \E i \in 1..10 : Digits[i] = c
DigitVal(c) == (CHOOSE i \in 1..10 : Digits[i] = c) - 1

RECURSIVE LStrip(_)
LStrip(s) == IF s # << >> /\ Head(s) \in Whitespace THEN LStrip(Tail(s)) ELSE s

RECURSIVE RStrip(_)
RStrip(s) ==
    IF s # << >> /\ s[Len(s)] \in Whitespace
    THEN RStrip(SubSeq(s, 1, Len(s) - 1)) ELSE s

\* str.strip()
Strip(s) == RStrip(LStrip(s))

RECURSIVE DigitsVal(_)
DigitsVal(s) ==
    IF s = << >> THEN 0
    ELSE 10 * DigitsVal(SubSeq(s, 1, Len(s) - 1)) + DigitVal(s[Len(s)])

\* Python's int(str): surrounding whitespace, an optional sign, then at least
\* one decimal digit; anything else raises ValueError (ok = FALSE)
ParseInt(s) ==
    LET t == Strip(s)
        signed == t # << >> /\ Head(t) \in {"+", "-"}
        body == IF signed THEN Tail(t) ELSE t
        ok == body # << >> /\ \A i \in 1..Len(body) : IsDigit(body[i])
    IN  [ok |-> ok,
         val |-> IF ~ok THEN 0
                 ELSE IF signed /\ Head(t) = "-" THEN -DigitsVal(body)
                 ELSE DigitsVal(body)]

(***************************************************************************)
(* Power-supply devices.  An attribute file is absent, unreadable (the     *)
(* read raises OSError) or holds a text.                                   *)
(***************************************************************************)
Absent == [state |-> "absent", text |-> << >>]
Unreadable == [state |-> "unreadable", text |-> << >>]
Text(t) == [state |-> "text", text |-> t]

\* fetch_prop(dev, attr): "" when the file does not exist, else its stripped
\* text; raised when the read fails
fetch_prop(dev, attr) ==
    LET a == dev[attr]
    IN  IF a.state = "absent" THEN [raised |-> FALSE, val |-> << >>]
        ELSE IF a.state = "unreadable" THEN [raised |-> TRUE, val |-> << >>]
        ELSE [raised |-> FALSE, val |-> Strip(a.text)]

BATTERY_PATH ==
    <<"/", "s", "y", "s", "/", "c", "l", "a", "s", "s", "/",
      "p", "o", "w", "e", "r", "_", "s", "u", "p", "p", "l", "y", "/">>

\* sub in s
Contains(sub, s) ==
    \E i \in 1..(Len(s) - Len(sub) + 1) : SubSeq(s, i, i + Len(sub) - 1) = sub

\* s.startswith(p)
StartsWith(s, p) == Len(p) <= Len(s) /\ SubSeq(s, 1, Len(p)) = p

\* the filter of status(): not a peripheral (HID) battery
Eligible(dev) ==
    LET path == BATTERY_PATH \o dev.name
    IN  /\ ~Contains(<<"h", "i", "d", "p", "p">>, path)
        /\ ~StartsWith(path, BATTERY_PATH \o <<"h", "i", "d", "-">>)

\* the capacity branch of status(): min(<percentage>, perc_min), where
\* int(full) is known to be nonzero; int(now) may raise
CapacityBranch(now, full, perc_min) ==
    LET n == ParseInt(now)
    IN  IF ~n.ok THEN [ret |-> FALSE, perc_min |-> perc_min]
        ELSE [ret |-> FALSE,
              perc_min |-> FloatMin(Capacity(n.val, ParseInt(full).val), perc_min)]

\* one iteration of the loop of status() on an eligible device: the body of
\* the try block.  ret: return 100 at once; otherwise the new perc_min, which
\* is the old one when an exception was caught.
DeviceStep(dev, perc_min) ==
    LET energy_now == fetch_prop(dev, "energy_now")
        energy_full == fetch_prop(dev, "energy_full")
        charge_now == fetch_prop(dev, "charge_now")
        charge_full == fetch_prop(dev, "charge_full")
        online == fetch_prop(dev, "online")
        skip == [ret |-> FALSE, perc_min |-> perc_min]
    IN  IF \/ energy_now.raised \/ energy_full.raised \/ charge_now.raised
           \/ charge_full.raised \/ online.raised
        THEN skip
        ELSE IF online.val # << >> /\ ~ParseInt(online.val).ok THEN skip
        ELSE IF online.val # << >> /\ ParseInt(online.val).val # 0
             THEN [ret |-> TRUE, perc_min |-> perc_min]
        ELSE IF energy_full.val # << >> /\ ~ParseInt(energy_full.val).ok THEN skip
        ELSE IF energy_full.val # << >> /\ ParseInt(energy_full.val).val # 0
             THEN CapacityBranch(energy_now.val, energy_full.val, perc_min)
        ELSE IF charge_full.val # << >> /\ ~ParseInt(charge_full.val).ok THEN skip
        ELSE IF charge_full.val # << >> /\ ParseInt(charge_full.val).val # 0
             THEN CapacityBranch(charge_now.val, charge_full.val, perc_min)
        ELSE skip

RECURSIVE StatusLoopNoReturn(_, _)
\* the loop without the early return on an online device
StatusLoopNoReturn(devs, perc_min) ==
    IF devs = << >> THEN FloatTrunc(perc_min)
    ELSE IF ~Eligible(Head(devs)) THEN StatusLoopNoReturn(Tail(devs), perc_min)
    ELSE StatusLoopNoReturn(Tail(devs), DeviceStep(Head(devs), perc_min).perc_min)

RECURSIVE StatusLoop(_, _)
\* the for loop of status() over the devices in enumeration order
StatusLoop(devs, perc_min) ==
    IF devs = << >> THEN FloatTrunc(perc_min)
    ELSE IF ~Eligible(Head(devs)) THEN StatusLoop(Tail(devs), perc_min)
    ELSE LET r == DeviceStep(Head(devs), perc_min)
         IN  IF r.ret THEN 100 ELSE StatusLoop(Tail(devs), r.perc_min)

\* status(): the power reading
status(devs) == StatusLoop(devs, FloatOfInt(100))

(***************************************************************************)
(* JSON values of the configuration document, tagged by type.  A Python    *)
(* str is "str" when it is a plain name and "text" when it is given by     *)
(* its characters (so that int() can parse it).                            *)
(***************************************************************************)
JStr(s) == [t |-> "str", v |-> s]
JText(cs) == [t |-> "text", v |-> cs]
JNum(n) == [t |-> "num", v |-> n]
JBool(b) == [t |-> "bool", v |-> b]
JNull == [t |-> "null", v |-> 0]
JObj(f) == [t |-> "obj", v |-> f]
JArr(a) == [t |-> "arr", v |-> a]
\* a number too large for a double, such as 1e999: json.load gives float inf
JInf == [t |-> "inf", v |-> 0]

\* the initial value of current_config: {}
EmptyConfig == JObj(<< >>)

\* Python truth value
Truthy(j) ==
    CASE j.t = "bool" -> j.v
      [] j.t = "num" -> j.v # 0
      [] j.t = "str" -> TRUE
      [] j.t = "text" -> j.v # << >>
      [] j.t = "null" -> FALSE
      [] j.t = "obj" -> DOMAIN j.v # {}
      [] j.t = "arr" -> j.v # << >>
      [] j.t = "inf" -> TRUE

\* dict.get(key, default)
PyGet(d, key, default) == IF key \in DOMAIN d.v THEN d.v[key] ELSE default

VALID_CPU_GOVS == {"powersave", "conservative", "performance"}

default_tdps ==
    [boost |-> 50, performance |-> 900, conservative |-> 13, powersave |-> 8]

\* int(value) in the validation of the tdp table: ValueError or TypeError
\* gives ok = FALSE
IntOf(j) ==
    CASE j.t = "num" -> [ok |-> TRUE, val |-> j.v]
      [] j.t = "bool" -> [ok |-> TRUE, val |-> IF j.v THEN 1 ELSE 0]
      [] j.t = "text" -> ParseInt(j.v)
      [] OTHER -> [ok |-> FALSE, val |-> 0]

\* int(value) raises OverflowError, which except (ValueError, TypeError)
\* does not catch
IntOverflows(j) == j.t = "inf"

\* the value the loop stores for one key
ValidatedValue(tdp, key) ==
    LET i == IntOf(PyGet(tdp, key, JNum(default_tdps[key])))
    IN  IF i.ok /\ i.val > 0 THEN i.val ELSE default_tdps[key]

\* the loop that validates the configured tdp mapping key by key
ValidatedTdps(tdp) ==
    [key \in DOMAIN default_tdps |-> ValidatedValue(tdp, key)]

\* the loop is left by an exception
ValidationRaises(tdp) ==
    \E key \in DOMAIN default_tdps :
        IntOverflows(PyGet(tdp, key, JNum(default_tdps[key])))

IsNumber(j) == j.t \in {"num", "bool", "inf"}
NumVal(j) == IF j.t = "bool" THEN (IF j.v THEN 1 ELSE 0) ELSE j.v

Min(a, b) == IF b < a THEN b ELSE a
Max(a, b) == IF b > a THEN b ELSE a

\* max(min(powersave_point, 80), 0)
ClampPoint(v) == Max(Min(v, 80), 0)

\* what one pass of the loop body reads from current_config before it takes
\* the reading; crash: an exception no handler catches (a document that is
\* no object, a powersave_point that is no number, a tdp that is neither an
\* object nor null, a tdp value that int() cannot hold)
CycleConfig(cfg) ==
    LET point == PyGet(cfg, "powersave_point", JNum(20))
        tdp == PyGet(cfg, "tdp", JNull)
    IN  IF \/ cfg.t # "obj"
           \/ ~IsNumber(point)
           \/ tdp.t \notin {"obj", "null"}
           \/ (tdp.t = "obj" /\ ValidationRaises(tdp))
        THEN [crash |-> TRUE]
        ELSE [crash |-> FALSE,
              desired_governor |-> PyGet(cfg, "governor", JStr("performance")),
              battery_governor |->
                  PyGet(cfg, "governor_battery", JStr("conservative")),
              detect_battery |->
                  Truthy(PyGet(cfg, "detect_battery_state", JBool(FALSE))),
              powersave_point |-> IF point.t = "inf" THEN 80
                                  ELSE ClampPoint(NumVal(point)),
              tdps |-> IF tdp.t = "null" THEN default_tdps
                       ELSE ValidatedTdps(tdp)]

(***************************************************************************)
(* Platform facts, derived once at import.                                 *)
(***************************************************************************)
Isx(h) == h.machine = "x86_64"
\* /proc/cpuinfo is read only on x86_64
Isi(h) == Isx(h) /\ h.vendor = "GenuineIntel"
Isa(h) == Isx(h) /\ h.vendor = "AuthenticAMD"

\* equality of two tagged values
SameValue(a, b) == a.t = b.t /\ a.v = b.v

(***************************************************************************)
(* TDP backends.  applied_tdp is << >> for None and <<g>> otherwise.       *)
(***************************************************************************)
\* int(min(tdps[g] * (1 + (tdps["boost"] / 100)), 900))
TdpShort(tdps, g) ==
    FloatTrunc(FloatMin(
        FloatMulInt(FloatAdd(FloatOfInt(1), FloatDiv(tdps["boost"], 100)),
                    tdps[g]),
        FloatOfInt(900)))

\* the rename both backends apply before they index the table
TdpKey(governor) ==
    IF SameValue(governor, JStr("conservative_x86")) THEN JStr("conservative")
    ELSE governor

\* tdps[governor] raises KeyError (TypeError for an unhashable value)
TdpKeyError(g, tdps) == ~(g.t = "str" /\ g.v \in DOMAIN tdps)

NoTdpCall == [crash |-> FALSE, calls |-> << >>]

\* run_raplctl(governor, tdps) with applied_tdp = applied; ok: the tool
\* exits with status 0
run_raplctl(governor, tdps, h, applied, ok) ==
    IF ~(Isi(h) /\ h.raplctl) THEN NoTdpCall @@ [applied |-> applied]
    ELSE IF applied # << >> /\ SameValue(applied[1], governor)
    THEN NoTdpCall @@ [applied |-> applied]
    ELSE LET g == TdpKey(governor)
         IN  IF TdpKeyError(g, tdps)
             THEN [crash |-> TRUE, calls |-> << >>, applied |-> applied]
             ELSE [crash |-> FALSE,
                   calls |-> <<[tool |-> "raplctl",
                                profile |-> g.v,
                                long |-> tdps[g.v],
                                short |-> TdpShort(tdps, g.v),
                                long_time |->
                                    IF g.v = "performance" THEN 300 ELSE 20,
                                ok |-> ok]>>,
                   applied |-> IF ok THEN <<g>> ELSE applied]

\* run_ryzenadj(governor, tdps)
run_ryzenadj(governor, tdps, h, applied, ok) ==
    IF ~(Isa(h) /\ h.ryzenadj) THEN NoTdpCall @@ [applied |-> applied]
    ELSE IF applied # << >> /\ SameValue(applied[1], governor)
    THEN NoTdpCall @@ [applied |-> applied]
    ELSE LET g == TdpKey(governor)
         IN  IF TdpKeyError(g, tdps)
             THEN [crash |-> TRUE, calls |-> << >>, applied |-> applied]
             ELSE [crash |-> FALSE,
                   calls |-> <<[tool |-> "ryzenadj",
                                profile |-> g.v,
                                stapm |-> tdps[g.v] * 1000,
                                slow |-> tdps[g.v] * 1000,
                                fast |-> TdpShort(tdps, g.v) * 100,
                                ok |-> ok]>>,
                   applied |-> IF ok THEN <<g>> ELSE applied]

(***************************************************************************)
(* The applier.  A control file holds a governor name.  What the kernel    *)
(* does with one path during a call is an input:                           *)
(*   ok             the write takes effect and reads back as written       *)
(*   error          write_text raises; the file keeps its value            *)
(*   ignored        the write returns but the file keeps its value, so the *)
(*                  read-back differs                                      *)
(*   readback_error the write takes effect, the read-back raises           *)
(*   read_error     the first read_text of the path raises                 *)
(***************************************************************************)
CpuPaths == <<"cpu0", "cpu1">>
DevfreqPaths == <<"gpu">>
Outcomes == {"ok", "error", "ignored", "readback_error", "read_error"}

Range(f) == {f[x] : x \in DOMAIN f}

NoChange(files) ==
    [crash |-> FALSE, files |-> files, altered |-> FALSE,
     writes |-> {}, failed |-> {}]

RECURSIVE ApplyPathsAlways(_, _, _, _)
\* the loop without the comparison that guards the write
ApplyPathsAlways(paths, files, target, out) ==
    IF paths = << >> THEN NoChange(files)
    ELSE LET p == Head(paths)
             r == ApplyPathsAlways(Tail(paths),
                                   [files EXCEPT ![p] = target.v], target, out)
         IN  [r EXCEPT !.altered = TRUE,
                       !.writes = r.writes \cup {<<p, target.v>>}]

RECURSIVE ApplyPathsStops(_, _, _, _)
\* the loop gives up at the first path whose write fails
ApplyPathsStops(paths, files, target, out) ==
    IF paths = << >> THEN NoChange(files)
    ELSE LET p == Head(paths)
         IN  IF out[p] = "read_error" THEN [NoChange(files) EXCEPT !.crash = TRUE]
             ELSE IF target.t = "str" /\ files[p] = target.v
             THEN ApplyPathsStops(Tail(paths), files, target, out)
             ELSE IF out[p] = "ok"
             THEN LET r == ApplyPathsStops(Tail(paths),
                                           [files EXCEPT ![p] = target.v],
                                           target, out)
                  IN  [r EXCEPT !.altered = TRUE,
                                !.writes = r.writes \cup {<<p, target.v>>}]
             ELSE [NoChange(files) EXCEPT !.writes = {<<p, target.v>>},
                                          !.failed = {p}]

RECURSIVE ApplyPaths(_, _, _, _)
\* one of the two for loops of set_governor: for each path in turn, read
\* it (outside any try) and, if it differs from the target, write the
\* target and read it back (inside the try).  A target that is no str makes
\* write_text raise TypeError before anything reaches the file.
ApplyPaths(paths, files, target, out) ==
    IF paths = << >> THEN NoChange(files)
    ELSE LET p == Head(paths)
         IN  IF out[p] = "read_error" THEN [NoChange(files) EXCEPT !.crash = TRUE]
             ELSE IF target.t = "str" /\ files[p] = target.v
             THEN ApplyPaths(Tail(paths), files, target, out)
             ELSE LET eff == IF target.t # "str" THEN "error" ELSE out[p]
                      written == IF eff \in {"ok", "readback_error"}
                                 THEN [files EXCEPT ![p] = target.v] ELSE files
                      r == ApplyPaths(Tail(paths), written, target, out)
                  IN  [crash |-> r.crash,
                       files |-> r.files,
                       altered |-> r.altered \/ eff = "ok",
                       writes |-> r.writes \cup
                                  (IF target.t = "str" THEN {<<p, target.v>>}
                                   ELSE {}),
                       failed |-> r.failed \cup
                                  (IF eff = "ok" THEN {} ELSE {p})]

\* no remapping on x86_64
CpuGovernorNoRemap(governor, h) == governor

\* the governor written to the CPU files: conservative does not exist on
\* x86_64
CpuGovernor(governor, h) ==
    IF Isx(h) /\ SameValue(governor, JStr("conservative")) THEN JStr("powersave")
    ELSE governor

\* no remapping for the devfreq files
DevfreqGovernorNoRemap(cpu_governor) == cpu_governor

\* the governor written to the devfreq files
DevfreqGovernor(cpu_governor) ==
    IF SameValue(cpu_governor, JStr("conservative")) THEN JStr("powersave")
    ELSE cpu_governor

\* ApplyPaths returns: crash (an exception left the loop), files (the
\* control files afterwards), altered, writes (the <<path, value>> pairs
\* handed to write_text) and failed (the paths logged as "Failed to set")

\* whether set_governor logs 'Applied governor "<effective_governor>"'
LogsApplied(altered, force) == altered \/ force

\* how set_governor ends, given what its four steps did: the two TDP
\* backends (r1, r2) and the two loops (c, d).  A step that raises ends the
\* call there: the later steps and the final log do not happen.
Outcome(governor, s, r1, r2, c, d) ==
    LET logs == LogsApplied(c.altered \/ d.altered, s.force_show)
        base == [governor |-> governor,
                 invalid_log |-> ~(governor.t = "str"
                                   /\ governor.v \in VALID_CPU_GOVS)]
    IN  IF r1.crash \/ r2.crash
        THEN base @@
             [crash |-> TRUE,
              applied_tdp |-> IF r1.crash THEN s.applied_tdp ELSE r1.applied,
              force_show |-> s.force_show, cpu |-> s.cpu, dev |-> s.dev,
              calls |-> IF r1.crash THEN << >> ELSE r1.calls,
              cpu_writes |-> {}, dev_writes |-> {}, failed |-> {},
              applied_log |-> << >>]
        ELSE IF c.crash \/ d.crash
        THEN base @@
             [crash |-> TRUE,
              applied_tdp |-> r2.applied,
              force_show |-> s.force_show,
              cpu |-> c.files,
              dev |-> IF c.crash THEN s.dev ELSE d.files,
              calls |-> r1.calls \o r2.calls,
              cpu_writes |-> c.writes,
              dev_writes |-> IF c.crash THEN {} ELSE d.writes,
              failed |-> c.failed \cup (IF c.crash THEN {} ELSE d.failed),
              applied_log |-> << >>]
        ELSE base @@
             [crash |-> FALSE,
              applied_tdp |-> r2.applied,
              force_show |-> IF logs THEN FALSE ELSE s.force_show,
              cpu |-> c.files, dev |-> d.files,
              calls |-> r1.calls \o r2.calls,
              cpu_writes |-> c.writes, dev_writes |-> d.writes,
              failed |-> c.failed \cup d.failed,
              applied_log |-> IF logs THEN <<governor>> ELSE << >>]

\* run_ryzenadj after run_raplctl, which left r1
ThenRyzenadj(r1, governor, tdps, h, ok) ==
    IF r1.crash THEN r1 ELSE run_ryzenadj(governor, tdps, h, r1.applied, ok)

\* the files are left alone when a TDP tool invocation failed
GovernorAfterTdp(calls, paths, files, target, out) ==
    IF \E i \in DOMAIN calls : ~calls[i].ok THEN NoChange(files)
    ELSE ApplyPaths(paths, files, target, out)

\* TDP and governor applied together or not at all
set_governorTransactional(governor, tdps, h, s, env) ==
    LET r1 == run_raplctl(governor, tdps, h, s.applied_tdp, env.rapl_ok)
        r2 == ThenRyzenadj(r1, governor, tdps, h, env.ryzen_ok)
    IN  Outcome(governor, s, r1, r2,
                GovernorAfterTdp(r1.calls \o r2.calls, CpuPaths, s.cpu,
                                 CpuGovernor(governor, h), env.cpu_out),
                GovernorAfterTdp(r1.calls \o r2.calls, DevfreqPaths, s.dev,
                                 DevfreqGovernor(CpuGovernor(governor, h)),
                                 env.dev_out))

\* set_governor(governor, tdps) on host h in state s = [applied_tdp,
\* force_show, cpu, dev] with the inputs env = [rapl_ok, ryzen_ok, cpu_out,
\* dev_out].  crash: an exception leaves set_governor (and the main loop).
set_governor(governor, tdps, h, s, env) ==
    LET r1 == run_raplctl(governor, tdps, h, s.applied_tdp, env.rapl_ok)
    IN  Outcome(governor, s, r1,
                ThenRyzenadj(r1, governor, tdps, h, env.ryzen_ok),
                ApplyPaths(CpuPaths, s.cpu, CpuGovernor(governor, h), env.cpu_out),
                ApplyPaths(DevfreqPaths, s.dev,
                           DevfreqGovernor(CpuGovernor(governor, h)), env.dev_out))

(***************************************************************************)
(* The decision of one pass of the main loop.                              *)
(***************************************************************************)
\* Powersave is left five points too early
NextPowersaveNarrow(ps, st, point) ==
    IF ps THEN st < point + 5 ELSE ~(st > point)

\* Powersave is entered only strictly below the threshold
NextPowersaveStrict(ps, st, point) ==
    IF ps THEN st < point + 10 ELSE st < point

\* the mode after the hysteresis test of main(): in Powersave stay while
\* st < powersave_point + 10, in Normal enter when not st > powersave_point
NextPowersave(ps, st, point) ==
    IF ps THEN st < point + 10 ELSE ~(st > point)

\* governor_battery is never used
TargetGovernorDesired(ps, st, desired_governor, battery_governor) ==
    IF ps THEN JStr("powersave") ELSE desired_governor

\* the governor main() hands to set_governor, given the mode after the test
TargetGovernor(ps, st, desired_governor, battery_governor) ==
    IF ps THEN JStr("powersave")
    ELSE IF st = 100 THEN desired_governor ELSE battery_governor

\* delay(): the number of one-second ticks
Period(ps) == IF ps THEN 5 ELSE 20

(***************************************************************************)
(* Inputs.                                                                 *)
(***************************************************************************)
RECURSIVE NatText(_)
\* the decimal text of a natural number, as sysfs prints it
NatText(n) ==
    IF n < 10 THEN <<Digits[n + 1]>>
    ELSE NatText(n \div 10) \o <<Digits[(n % 10) + 1]>>

NumText(n) == IF n < 0 THEN <<"-">> \o NatText(-n) ELSE NatText(n)

\* a sysfs attribute file holding a number and the newline the kernel adds
NumFile(n) == Text(NumText(n) \o <<"\n">>)

Device(name, energy_now, energy_full, charge_now, charge_full, online) ==
    [name |-> name, energy_now |-> energy_now, energy_full |-> energy_full,
     charge_now |-> charge_now, charge_full |-> charge_full, online |-> online]

BAT0 == <<"B", "A", "T", "0">>
BAT1 == <<"B", "A", "T", "1">>
AC == <<"A", "C">>
HidppName == <<"h", "i", "d", "p", "p", "_", "b", "a", "t", "t", "e", "r", "y", "_", "0">>
HidName == <<"h", "i", "d", "-", "0", "0", "1", "-", "b", "a", "t", "t", "e", "r", "y">>

\* a battery that reports energy
EnergyBattery(name, now, full) ==
    Device(name, NumFile(now), NumFile(full), Absent, Absent, Absent)

\* a battery that reports charge only
ChargeBattery(name, now, full) ==
    Device(name, Absent, Absent, NumFile(now), NumFile(full), Absent)

\* a mains adapter
Mains(name, online) == Device(name, Absent, Absent, Absent, Absent, NumFile(online))

\* the power-supply devices status() is exercised on
StatusDevices ==
    { EnergyBattery(BAT0, 1, 5),
      EnergyBattery(BAT1, 3, 5),
      EnergyBattery(BAT1, 6, 5),
      EnergyBattery(BAT0, -1, 5),
      ChargeBattery(BAT0, 2, 4),
      Device(BAT1, NumFile(3), NumFile(0), NumFile(1), NumFile(4), Absent),
      Mains(AC, 1),
      Mains(AC, 0),
      Device(BAT0, Unreadable, NumFile(5), Absent, Absent, Absent),
      Device(BAT1, NumFile(2), Text(<<"n", "/", "a">>), NumFile(1), NumFile(4), Absent),
      Device(BAT0, NumFile(3), NumFile(5), Absent, Absent, Text(<<"y", "e", "s">>)),
      Device(AC, Unreadable, Absent, Absent, Absent, NumFile(1)),
      Device(BAT1, NumFile(2), NumFile(5), Absent, Absent, NumFile(1)),
      EnergyBattery(HidppName, 0, 5),
      Mains(HidName, 1) }

MaxDevices == 2

\* the enumerations of /sys/class/power_supply: iterdir() fixes no order
DeviceSeqs ==
    UNION { [1..n -> StatusDevices] : n \in 0..MaxDevices }

\* the battery's energy_now in the daemon's runs, out of an energy_full of
\* 20: readings on both sides of every threshold
DaemonNow == {3, 5, 6, 7, 16, 17, 18}

\* what the power supplies can look like when the daemon takes a reading
BatteryInputs ==
    { <<Mains(AC, 0), EnergyBattery(BAT0, n, 20)>> : n \in DaemonNow }
    \cup { <<EnergyBattery(BAT0, 3, 20), Mains(AC, 1)>> }

\* status() on each of them
StatusOf == [devs \in BatteryInputs |-> status(devs)]

\* detect_battery is ignored
ReadingAlways(detect_battery, devs) == StatusOf[devs]

\* st = status() if detect_battery else 100
Reading(detect_battery, devs) == IF detect_battery THEN StatusOf[devs] ELSE 100

\* the hosts: an ARM board, an Intel machine with raplctl installed, an AMD
\* machine with ryzenadj installed
ArmBoard ==
    [machine |-> "aarch64", vendor |-> "", raplctl |-> FALSE, ryzenadj |-> FALSE]
IntelHost ==
    [machine |-> "x86_64", vendor |-> "GenuineIntel", raplctl |-> TRUE,
     ryzenadj |-> FALSE]
AmdHost ==
    [machine |-> "x86_64", vendor |-> "AuthenticAMD", raplctl |-> FALSE,
     ryzenadj |-> TRUE]
Hosts == {ArmBoard, IntelHost, AmdHost}

\* the host has a TDP tool for its vendor
HasBackend(h) == (Isi(h) /\ h.raplctl) \/ (Isa(h) /\ h.ryzenadj)

\* a file whose content json.load rejects
Unparseable == [t |-> "invalid", v |-> 0]

\* what the configuration file holds when it is read, in no particular
\* order
ConfigDocs ==
    << JObj([governor |-> JStr("performance"),
            governor_battery |-> JStr("conservative"),
            detect_battery_state |-> JBool(TRUE),
            powersave_point |-> JNum(25)]),
      JObj([governor |-> JStr("conservative"),
            detect_battery_state |-> JBool(FALSE),
            powersave_point |-> JNum(80)]),
      JObj([governor |-> JStr("powersave"),
            detect_battery_state |-> JBool(TRUE),
            powersave_point |-> JNum(95),
            tdp |-> JObj([boost |-> JText(<<"x">>),
                          performance |-> JNum(30),
                          conservative |-> JNum(0)])]),
      JObj([governor |-> JStr("ondemand"),
            detect_battery_state |-> JBool(TRUE)]),
      JObj([governor |-> JStr("performance"),
            powersave_point |-> JText(<<"2", "0">>)]),
      EmptyConfig,
      Unparseable >>

MaxMtime == 2

\* what the kernel does with the control files during one set_governor call
\* of the daemon
DaemonOutcomes ==
    { [cpu0 |-> "ok", cpu1 |-> "ok", gpu |-> "ok"],
      [cpu0 |-> "ok", cpu1 |-> "error", gpu |-> "ok"],
      [cpu0 |-> "ignored", cpu1 |-> "ok", gpu |-> "readback_error"],
      [cpu0 |-> "ok", cpu1 |-> "read_error", gpu |-> "ok"] }

MaxFaults == 1

\* the outcomes in which at most MaxFaults control files misbehave
FaultyOutcomes ==
    { o \in [Range(CpuPaths) \cup Range(DevfreqPaths) -> Outcomes] :
        Cardinality({p \in DOMAIN o : o[p] # "ok"}) <= MaxFaults }

\* the governors set_governor is called with directly
Targets == <<JStr("performance"), JStr("powersave"), JStr("conservative")>>

\* the tdp tables it is called with directly
Tables ==
    <<default_tdps,
      [boost |-> 25, performance |-> 45, conservative |-> 15, powersave |-> 6]>>

\* the governor names something else may write to a control file
KernelGovernors == {"performance", "powersave"}

\* the inputs of one set_governor call: the exit status of the TDP tool the
\* host has, and the outcomes on the control files
Envs(h, outcomes) ==
    { [rapl_ok |-> r, ryzen_ok |-> z,
       cpu_out |-> [p \in Range(CpuPaths) |-> o[p]],
       dev_out |-> [p \in Range(DevfreqPaths) |-> o[p]]] :
        r \in IF Isi(h) /\ h.raplctl THEN BOOLEAN ELSE {TRUE},
        z \in IF Isa(h) /\ h.ryzenadj THEN BOOLEAN ELSE {TRUE},
        o \in outcomes }

\* the governor every control file holds at boot
BootFiles(paths) == [p \in Range(paths) |-> "performance"]

(***************************************************************************)
(* The power limit uncap of Intel hosts.  A register value is the set of   *)
(* the positions of its one bits, so that & is \cap and | is \cup; a       *)
(* 64-bit value has positions 0..63, a 32-bit word 0..31.                  *)
(***************************************************************************)
INTEL_MSR_PKG_POWER_LIMIT == 1552
INTEL_PACKAGE_RAPL_LIMIT_0_0_0_MCHBAR_PCU == 22944
INTEL_PL1_ENABLE_BITS_LOW == {15}
INTEL_PL2_ENABLE_BITS_HIGH == {15}
\* PL1 in the low word, PL2 in the high word shifted by 32
INTEL_PL1_PL2_ENABLE_BITS ==
    INTEL_PL1_ENABLE_BITS_LOW \cup {b + 32 : b \in INTEL_PL2_ENABLE_BITS_HIGH}

PL_UNCAP_REQUIRED_TOOLS == <<"devmem2", "rdmsr", "wrmsr", "turbostat", "setpci">>

\* [tool for tool in PL_UNCAP_REQUIRED_TOOLS if not shutil.which(tool)],
\* found being the tools shutil.which finds
MissingTools(found) ==
    SelectSeq(PL_UNCAP_REQUIRED_TOOLS, LAMBDA tool : tool \notin found)

\* one invocation of a helper tool: an MSR address, the configuration
\* register 48 of device 00:00.0, or a physical address base + offset
Op(kind, base, offset, value) ==
    [kind |-> kind, base |-> base, offset |-> offset, value |-> value]

\* the register word 48.l of the host bridge
MchbarRegister == 72

\* the tool invocations that can fail
UncapFaults ==
    {"none", "read_msr", "write_msr", "get_mchbar", "read_low", "read_high",
     "write_low", "write_high"}

\* an enable_msr_limits that writes the mask alone
enable_msr_limitsMaskOnly(r) ==
    LET read == Op("rdmsr", {}, INTEL_MSR_PKG_POWER_LIMIT, {})
        write == Op("wrmsr", {}, INTEL_MSR_PKG_POWER_LIMIT,
                    INTEL_PL1_PL2_ENABLE_BITS)
    IN  IF r.fault = "read_msr"
        THEN [raised |-> TRUE, regs |-> r, ops |-> <<read>>]
        ELSE IF r.msr \cap INTEL_PL1_PL2_ENABLE_BITS = INTEL_PL1_PL2_ENABLE_BITS
        THEN [raised |-> FALSE, regs |-> r, ops |-> <<read>>]
        ELSE IF r.fault = "write_msr"
        THEN [raised |-> TRUE, regs |-> r, ops |-> <<read, write>>]
        ELSE [raised |-> FALSE,
              regs |-> [r EXCEPT !.msr = INTEL_PL1_PL2_ENABLE_BITS],
              ops |-> <<read, write>>]

\* enable_msr_limits() on the registers r; raised: an exception leaves it
enable_msr_limits(r) ==
    LET read == Op("rdmsr", {}, INTEL_MSR_PKG_POWER_LIMIT, {})
        write == Op("wrmsr", {}, INTEL_MSR_PKG_POWER_LIMIT,
                    r.msr \cup INTEL_PL1_PL2_ENABLE_BITS)
    IN  IF r.fault = "read_msr"
        THEN [raised |-> TRUE, regs |-> r, ops |-> <<read>>]
        ELSE IF r.msr \cap INTEL_PL1_PL2_ENABLE_BITS = INTEL_PL1_PL2_ENABLE_BITS
        THEN [raised |-> FALSE, regs |-> r, ops |-> <<read>>]
        ELSE IF r.fault = "write_msr"
        THEN [raised |-> TRUE, regs |-> r, ops |-> <<read, write>>]
        ELSE [raised |-> FALSE,
              regs |-> [r EXCEPT !.msr = r.msr \cup INTEL_PL1_PL2_ENABLE_BITS],
              ops |-> <<read, write>>]

\* what disable_mmio_limits does with the two words it read:
\*   "nothing"  both are zero
\*   "fail"     locked and a limit is enabled: RuntimeError
\*   "zero"     not locked: both words are written as zero
\*   "keep"     locked and no limit enabled: the if is_locked branch ends
\*              without raising, and the else branch with the writes belongs
\*              to if is_locked
MmioDecision(low, high) ==
    IF low = {} /\ high = {} THEN "nothing"
    ELSE IF 31 \in high
    THEN IF low \cap INTEL_PL1_ENABLE_BITS_LOW # {}
            \/ high \cap INTEL_PL2_ENABLE_BITS_HIGH # {}
         THEN "fail" ELSE "keep"
    ELSE "zero"

\* the two writes of disable_mmio_limits at base + offset and + 4
ZeroMmio(r, base, offset) ==
    LET w1 == Op("devmem2_write", base, offset, {})
        w2 == Op("devmem2_write", base, offset + 4, {})
    IN  IF r.fault = "write_low"
        THEN [raised |-> TRUE, regs |-> r, ops |-> <<w1>>]
        ELSE IF r.fault = "write_high"
        THEN [raised |-> TRUE, regs |-> [r EXCEPT !.low = {}],
              ops |-> <<w1, w2>>]
        ELSE [raised |-> FALSE, regs |-> [r EXCEPT !.low = {}, !.high = {}],
              ops |-> <<w1, w2>>]

\* disable_mmio_limits() after get_mchbar_address() returned base
LimitsAt(r, base, offset) ==
    LET r1 == Op("devmem2_read", base, offset, r.low)
        r2 == Op("devmem2_read", base, offset + 4, r.high)
        d == MmioDecision(r.low, r.high)
    IN  IF r.fault = "read_low"
        THEN [raised |-> TRUE, regs |-> r, ops |-> <<r1>>]
        ELSE IF r.fault = "read_high"
        THEN [raised |-> TRUE, regs |-> r, ops |-> <<r1, r2>>]
        ELSE IF d = "zero"
        THEN LET z == ZeroMmio(r, base, offset)
             IN  [z EXCEPT !.ops = <<r1, r2>> \o z.ops]
        ELSE [raised |-> d = "fail", regs |-> r, ops |-> <<r1, r2>>]

\* disable_mmio_limits(): get_mchbar_address() raises when setpci fails or
\* bit 0 of the register is clear, and returns the register without bit 0
disable_mmio_limits(r) ==
    LET pci == Op("setpci", {}, MchbarRegister, r.mchbar)
    IN  IF r.fault = "get_mchbar" \/ 0 \notin r.mchbar
        THEN [raised |-> TRUE, regs |-> r, ops |-> <<pci>>]
        ELSE LET l == LimitsAt(r, r.mchbar \ {0},
                               INTEL_PACKAGE_RAPL_LIMIT_0_0_0_MCHBAR_PCU)
             IN  [l EXCEPT !.ops = <<pci>> \o l.ops]

\* disable_mmio_limits() is called although enable_msr_limits() raised
UncapStepsGoOn(r) ==
    LET e == enable_msr_limits(r)
        d == disable_mmio_limits(e.regs)
    IN  [d EXCEPT !.ops = e.ops \o d.ops, !.raised = e.raised \/ d.raised]

\* enable_msr_limits(); disable_mmio_limits() inside the try
UncapSteps(r) ==
    LET e == enable_msr_limits(r)
    IN  IF e.raised THEN e
        ELSE LET d == disable_mmio_limits(e.regs)
             IN  [d EXCEPT !.ops = e.ops \o d.ops]

\* the steps are attempted although tools are missing
UncapPowerAnyway(missing, r) ==
    LET u == UncapSteps(r)
    IN  [outcome |-> IF missing # << >> THEN "missing"
                     ELSE IF u.raised THEN "failed" ELSE "complete",
         warned |-> missing, regs |-> u.regs, ops |-> u.ops]

\* try_uncap_power() with PL_UNCAP_MISSING = missing: warned is the tools
\* named in the warning, outcome the last line logged
UncapPower(missing, r) ==
    IF missing # << >>
    THEN [outcome |-> "missing", warned |-> missing, regs |-> r, ops |-> << >>]
    ELSE LET u == UncapSteps(r)
         IN  [outcome |-> IF u.raised THEN "failed" ELSE "complete",
              warned |-> << >>, regs |-> u.regs, ops |-> u.ops]

\* try_uncap_power has not run
NoUncap == [outcome |-> "none", warned |-> << >>, ops |-> << >>]

\* the power limit registers of the hosts of the daemon: limits enabled in
\* the MSR and in MMIO, not locked
CappedRegs ==
    [msr |-> {3, 15}, mchbar |-> {0, 16, 20, 22, 23, 25, 26, 27, 28, 29, 30, 31},
     low |-> {3, 15}, high |-> {4, 15}, fault |-> "none"]

\* the registers try_uncap_power is run on directly
UncapRegs ==
    [msr : {{}, {15}, {3, 47}, {3, 15, 47}},
     mchbar : {{0, 16, 20, 31}, {16, 20, 31}},
     low : SUBSET {3, 15},
     high : SUBSET {4, 15, 31},
     fault : UncapFaults]

(***************************************************************************)
(* govctl_cli.py.  The configuration file holds an object with the four    *)
(* keys below.  An option that was not given is "" (a name), FALSE (a      *)
(* flag) or << >> (the percentage); the percentage that was given is the   *)
(* text on the command line.                                               *)
(***************************************************************************)
GovernorChoices == {"powersave", "conservative", "performance"}

\* the configuration file the package installs
DefaultFile ==
    [governor |-> "performance", governor_battery |-> "conservative",
     detect_battery_state |-> TRUE, powersave_point |-> 20]

\* the texts given with -p
PercentTexts ==
    {NumText(0), NumText(1), NumText(20), NumText(80), NumText(81),
     NumText(-1), <<"x">>}

\* the type= function of -p: int(x) if 0 <= int(x) <= 80, else
\* ArgumentTypeError; int(x) itself raises ValueError
PercentType(x) ==
    LET i == ParseInt(x)
    IN  [ok |-> i.ok /\ 0 <= i.val /\ i.val <= 80, val |-> i.val]

\* the command lines: argparse has checked the names against choices
CliArgv ==
    [set_governor : GovernorChoices \cup {""},
     get_governor : BOOLEAN,
     set_battery_governor : GovernorChoices \cup {""},
     enable_battery_detection : BOOLEAN,
     disable_battery_detection : BOOLEAN,
     powersave_percent : {<< >>} \cup {<<x>> : x \in PercentTexts}]

NoArgv ==
    [set_governor |-> "", get_governor |-> FALSE, set_battery_governor |-> "",
     enable_battery_detection |-> FALSE, disable_battery_detection |-> FALSE,
     powersave_percent |-> << >>]

\* parser.parse_args(): error when the type function of -p raised, else
\* the percentage as an integer
parse_args(argv) ==
    IF argv.powersave_percent = << >>
    THEN [error |-> FALSE, given |-> FALSE, percent |-> 0]
    ELSE LET t == PercentType(argv.powersave_percent[1])
         IN  [error |-> ~t.ok, given |-> t.ok, percent |-> t.val]

\* what a run leaves: the exit status, whether save_config and
\* reload_service were called and whether the help was printed
CliOut(code, saved, file) ==
    [exit |-> code, saved |-> saved, reloaded |-> saved,
     help |-> code = 0 /\ ~saved, file |-> file]

\* if args.powersave_percent: an int that is 0 is false, as is None
PercentTruthy(a) == a.given /\ a.percent # 0

\* the statements of main() from modified = False to the test of it
Modified(argv, a) ==
    \/ argv.set_governor # ""
    \/ argv.set_battery_governor # ""
    \/ argv.enable_battery_detection
    \/ argv.disable_battery_detection
    \/ PercentTruthy(a)

\* config after the assignments of main()
Configured(argv, a, config) ==
    [governor |-> IF argv.set_governor # "" THEN argv.set_governor
                  ELSE config.governor,
     governor_battery |->
         IF argv.set_battery_governor # "" THEN argv.set_battery_governor
         ELSE config.governor_battery,
     detect_battery_state |->
         IF argv.disable_battery_detection THEN FALSE
         ELSE IF argv.enable_battery_detection THEN TRUE
         ELSE config.detect_battery_state,
     powersave_point |-> IF PercentTruthy(a) THEN a.percent
                         ELSE config.powersave_point]

\* main() of govctl_cli.py run with argv by the user euid on file
cli_main(argv, euid, file) ==
    LET a == parse_args(argv)
    IN  IF a.error THEN CliOut(2, FALSE, file)
        ELSE IF argv.get_governor THEN CliOut(0, FALSE, file)
        ELSE IF ~Modified(argv, a) THEN CliOut(0, FALSE, file)
        ELSE IF euid # 0 THEN CliOut(1, FALSE, file)
        ELSE CliOut(0, TRUE, Configured(argv, a, file))

\* the tool has not been run
NoCli ==
    [file |-> DefaultFile, argv |-> NoArgv, euid |-> 0,
     out |-> CliOut(0, FALSE, DefaultFile)]

(***************************************************************************)
(* State.                                                                  *)
(***************************************************************************)
VARIABLES
    host,               \* the platform facts isx, isi, isa and the tools present
    cfg_file,           \* the configuration file: exists, mtime; what it
                        \* holds is an input of the read
    cpu_gov,            \* cpu*/cpufreq/scaling_governor
    devfreq_gov,        \* /sys/class/devfreq/*/governor
    current_config,     \* the global current_config
    force_show,         \* the global force_show
    powersave,          \* the global powersave
    applied_tdp,        \* the global applied_tdp
    last_config_mtime,  \* the global last_config_mtime
    pc,                 \* where the process is
    ticks,              \* iterations delay() has left
    lc,                 \* load_config between json.load and the assignments
    fresh,              \* no set_governor call since start or the last reload
    last_ok,            \* profile of the last successful TDP call since then
    cycle,              \* what the step just taken did, if it was a pass of
                        \* the loop body
    call,               \* what the last direct set_governor call did
    prev,               \* the direct call before it
    disturbed,          \* a control file was changed from outside since
    st_devs,            \* the devices a direct status() call enumerates
    st_result,          \* what it returned
    loaded,             \* a json.load has succeeded since the start
    signalled,          \* SIGHUP arrived and no poll has begun since
    settings,           \* what a direct read of the settings gave
    PL_UNCAP_MISSING,   \* the required tools shutil.which did not find
    regs,               \* the package power limit MSR, the MCHBAR register
                        \* of the host bridge, the MMIO power limit
    uncap,              \* what try_uncap_power did
    cli                 \* the configuration file as govctl_cli.py sees it,
                        \* and its last run: arguments, user, outcome

vars ==
    <<host, cfg_file, cpu_gov, devfreq_gov, current_config, force_show,
      powersave, applied_tdp, last_config_mtime, pc, ticks, lc, fresh, last_ok,
      cycle, call, prev, disturbed, st_devs, st_result, loaded, signalled,
      settings, PL_UNCAP_MISSING, regs, uncap, cli>>

daemon_vars ==
    <<cfg_file, current_config, powersave, last_config_mtime, ticks, lc, fresh,
      last_ok, cycle, loaded, signalled>>
apply_vars == <<call, prev, disturbed>>
status_vars == <<st_devs, st_result>>
settings_vars == <<settings>>
uncap_vars == <<PL_UNCAP_MISSING, regs, uncap>>
cli_vars == <<cli>>
hardware_vars == <<cpu_gov, devfreq_gov, force_show, applied_tdp>>

\* what is seen of a set_governor call from outside: its argument, the log
\* lines, the tool invocations and the writes
Seen(r) ==
    [governor |-> r.governor, invalid_log |-> r.invalid_log,
     crash |-> r.crash, calls |-> r.calls, cpu_writes |-> r.cpu_writes,
     dev_writes |-> r.dev_writes, failed |-> r.failed,
     applied_log |-> r.applied_log]

\* a set_governor call that did not happen
NoResult ==
    [governor |-> JNull, invalid_log |-> FALSE, crash |-> FALSE,
     calls |-> << >>, cpu_writes |-> {}, dev_writes |-> {}, failed |-> {},
     applied_log |-> << >>]

NoCycle ==
    [kind |-> "none", st |-> 0, point |-> 0, ps_before |-> FALSE,
     fresh |-> FALSE, last_ok_before |-> << >>, detect |-> FALSE,
     desired |-> JNull, battery |-> JNull, tdps |-> default_tdps,
     res |-> NoResult, left |-> 0]

NoCall ==
    [kind |-> "none", tdps |-> default_tdps, cpu_before |-> << >>,
     dev_before |-> << >>, in_a_row |-> FALSE, prev_clean |-> FALSE,
     prev_crashed |-> FALSE, env |-> << >>, res |-> NoResult]

NoPrev ==
    [called |-> FALSE, governor |-> JNull, clean |-> FALSE, crashed |-> FALSE]

NoLoad == [mtime |-> 0, ret |-> ""]

\* the settings have not been read directly
NoSettings == [crash |-> FALSE, read |-> FALSE]

\* every required tool is installed
AllTools == Range(PL_UNCAP_REQUIRED_TOOLS)

\* the globals as the module body leaves them
Globals ==
    /\ current_config = EmptyConfig
    /\ force_show = TRUE
    /\ powersave = FALSE
    /\ applied_tdp = << >>
    /\ last_config_mtime = 0

Boot ==
    /\ cpu_gov = BootFiles(CpuPaths)
    /\ devfreq_gov = BootFiles(DevfreqPaths)
    /\ Globals
    /\ ticks = 0
    /\ lc = NoLoad
    /\ fresh = TRUE
    /\ last_ok = << >>
    /\ cycle = NoCycle
    /\ call = NoCall
    /\ prev = NoPrev
    /\ disturbed = FALSE
    /\ st_result = -1
    /\ loaded = FALSE
    /\ signalled = FALSE
    /\ settings = NoSettings
    /\ uncap = NoUncap
    /\ cli = NoCli

\* the daemon at the first statement of main()
Init ==
    /\ Boot
    /\ host \in Hosts
    /\ \/ cfg_file = [exists |-> FALSE, mtime |-> 0]
       \/ cfg_file = [exists |-> TRUE, mtime |-> 1]
    /\ pc = "init_load"
    /\ st_devs = << >>
    /\ PL_UNCAP_MISSING = MissingTools(AllTools)
    /\ regs = CappedRegs

(***************************************************************************)
(* load_config, in two steps: up to and including json.load, and the       *)
(* assignments after it.  A signal handler runs between any two bytecodes. *)
(***************************************************************************)
\* a delay() that always sleeps its whole period
AfterLoadFullSleep(ret, force, t, h) ==
    CASE ret = "init_load" ->
             [pc |-> IF Isi(h) THEN "uncap" ELSE "loop_load", ticks |-> t]
      [] ret = "loop_load" -> [pc |-> "decide", ticks |-> t]
      [] ret = "sleep" ->
             IF t = 1 THEN [pc |-> "loop_load", ticks |-> 0]
             ELSE [pc |-> "sleep", ticks |-> t - 1]

\* where the caller of load_config continues, and delay()'s loop counter
AfterLoad(ret, force, t, h) ==
    CASE ret = "init_load" ->
             [pc |-> IF Isi(h) THEN "uncap" ELSE "loop_load", ticks |-> t]
      [] ret = "loop_load" -> [pc |-> "decide", ticks |-> t]
      [] ret = "sleep" ->
             IF force \/ t = 1 THEN [pc |-> "loop_load", ticks |-> 0]
             ELSE [pc |-> "sleep", ticks |-> t - 1]

InLoad == pc \in {"init_load", "loop_load", "sleep"}

\* the file is missing, or its mtime equals last_config_mtime
LoadSkip ==
    /\ InLoad
    /\ ~cfg_file.exists \/ cfg_file.mtime = last_config_mtime
    /\ LET a == AfterLoad(pc, force_show, ticks, host)
       IN  pc' = a.pc /\ ticks' = a.ticks
    /\ cycle' = [NoCycle EXCEPT !.kind = IF cfg_file.exists THEN "poll_same"
                                        ELSE "poll_missing"]
    /\ signalled' = FALSE
    /\ UNCHANGED <<host, cfg_file, current_config, powersave, last_config_mtime,
                   lc, fresh, last_ok, loaded, hardware_vars, apply_vars,
                   status_vars, settings_vars,
                   uncap_vars,
                   cli_vars>>

\* a failed load that remembers the modification time all the same
LoadFailRemembers ==
    /\ InLoad
    /\ cfg_file.exists /\ cfg_file.mtime # last_config_mtime
    /\ \E i \in DOMAIN ConfigDocs : ConfigDocs[i].t = "invalid"
    /\ LET a == AfterLoad(pc, force_show, ticks, host)
       IN  pc' = a.pc /\ ticks' = a.ticks
    /\ cycle' = [NoCycle EXCEPT !.kind = "poll_failed"]
    /\ signalled' = FALSE
    /\ last_config_mtime' = cfg_file.mtime
    /\ UNCHANGED <<host, cfg_file, current_config, powersave, lc, fresh, last_ok,
                   loaded, hardware_vars, apply_vars, status_vars,
                   settings_vars, uncap_vars,
                   cli_vars>>

\* open or json.load raises: the handler logs, nothing is assigned
LoadFail ==
    /\ InLoad
    /\ cfg_file.exists /\ cfg_file.mtime # last_config_mtime
    /\ \E i \in DOMAIN ConfigDocs : ConfigDocs[i].t = "invalid"
    /\ LET a == AfterLoad(pc, force_show, ticks, host)
       IN  pc' = a.pc /\ ticks' = a.ticks
    /\ cycle' = [NoCycle EXCEPT !.kind = "poll_failed"]
    /\ signalled' = FALSE
    /\ UNCHANGED <<host, cfg_file, current_config, powersave, last_config_mtime,
                   lc, fresh, last_ok, loaded, hardware_vars, apply_vars,
                   status_vars, settings_vars,
                   uncap_vars,
                   cli_vars>>

\* current_config = json.load(f)
LoadRead ==
    /\ InLoad
    /\ cfg_file.exists /\ cfg_file.mtime # last_config_mtime
    /\ \E i \in DOMAIN ConfigDocs :
         /\ ConfigDocs[i].t # "invalid"
         /\ current_config' = ConfigDocs[i]
    /\ lc' = [mtime |-> cfg_file.mtime, ret |-> pc]
    /\ pc' = "load_commit"
    /\ cycle' = [NoCycle EXCEPT !.kind = "poll_read"]
    /\ signalled' = FALSE
    /\ loaded' = TRUE
    /\ UNCHANGED <<host, cfg_file, powersave, last_config_mtime, ticks, fresh,
                   last_ok, hardware_vars, apply_vars, status_vars, settings_vars,
                   uncap_vars,
                   cli_vars>>

\* last_config_mtime = current_mtime; force_show = True; applied_tdp = None
LoadCommit ==
    /\ pc = "load_commit"
    /\ last_config_mtime' = lc.mtime
    /\ force_show' = TRUE
    /\ applied_tdp' = << >>
    /\ fresh' = TRUE
    /\ last_ok' = << >>
    /\ LET a == AfterLoad(lc.ret, TRUE, ticks, host)
       IN  pc' = a.pc /\ ticks' = a.ticks
    /\ lc' = NoLoad
    /\ cycle' = [NoCycle EXCEPT !.kind = "poll_loaded",
                                !.left = IF lc.ret = "sleep" THEN ticks ELSE 0]
    /\ UNCHANGED <<host, cfg_file, cpu_gov, devfreq_gov, current_config,
                   powersave, loaded, signalled, apply_vars, status_vars, settings_vars,
                   uncap_vars,
                   cli_vars>>

\* a handler that sets the force flag itself
reloadForces ==
    /\ pc \in {"init_load", "uncap", "loop_load", "decide", "sleep", "load_commit"}
    /\ last_config_mtime' = 0
    /\ force_show' = TRUE
    /\ signalled' = TRUE
    /\ cycle' = NoCycle
    /\ UNCHANGED <<host, cfg_file, current_config, powersave, pc, ticks, lc,
                   fresh, last_ok, loaded, cpu_gov, devfreq_gov, applied_tdp,
                   apply_vars, status_vars, settings_vars, uncap_vars,
                   cli_vars>>

\* the SIGHUP handler
reload ==
    /\ pc \in {"init_load", "uncap", "loop_load", "decide", "sleep", "load_commit"}
    /\ last_config_mtime' = 0
    /\ signalled' = TRUE
    /\ cycle' = NoCycle
    /\ UNCHANGED <<host, cfg_file, current_config, powersave, pc, ticks, lc,
                   fresh, last_ok, loaded, hardware_vars, apply_vars,
                   status_vars, settings_vars,
                   uncap_vars,
                   cli_vars>>

\* something rewrites the configuration file
WriteConfig ==
    /\ pc \in {"init_load", "uncap", "loop_load", "decide", "sleep", "load_commit"}
    /\ cfg_file.mtime < MaxMtime
    /\ cfg_file' = [exists |-> TRUE, mtime |-> cfg_file.mtime + 1]
    /\ cycle' = NoCycle
    /\ UNCHANGED <<host, current_config, powersave, last_config_mtime, pc, ticks,
                   lc, fresh, last_ok, loaded, signalled, hardware_vars,
                   apply_vars, status_vars, settings_vars, uncap_vars,
                   cli_vars>>

\* if isi: try_uncap_power()
try_uncap_power ==
    /\ pc = "uncap"
    /\ LET u == UncapPower(PL_UNCAP_MISSING, regs)
       IN  /\ regs' = u.regs
           /\ uncap' = [outcome |-> u.outcome, warned |-> u.warned,
                        ops |-> u.ops]
    /\ pc' = "loop_load"
    /\ cycle' = NoCycle
    /\ UNCHANGED <<host, cfg_file, current_config, powersave, last_config_mtime,
                   ticks, lc, fresh, last_ok, loaded, signalled, hardware_vars,
                   apply_vars, status_vars, settings_vars, PL_UNCAP_MISSING,
                   cli_vars>>

(***************************************************************************)
(* One pass of the body of the while loop of main(), after its load_config *)
(***************************************************************************)
\* if not current_config: warn, sleep 10 seconds, continue
DecideIdle ==
    /\ pc = "decide"
    /\ ~Truthy(current_config)
    /\ pc' = "loop_load"
    /\ cycle' = [NoCycle EXCEPT !.kind = "idle"]
    /\ UNCHANGED <<host, cfg_file, current_config, powersave, last_config_mtime,
                   ticks, lc, fresh, last_ok, loaded, signalled, hardware_vars,
                   apply_vars, status_vars, settings_vars, uncap_vars,
                   cli_vars>>

\* reading the settings raises an exception nothing catches
DecideCrash ==
    /\ pc = "decide"
    /\ Truthy(current_config)
    /\ CycleConfig(current_config).crash
    /\ pc' = "crashed"
    /\ cycle' = [NoCycle EXCEPT !.kind = "crash"]
    /\ UNCHANGED <<host, cfg_file, current_config, powersave, last_config_mtime,
                   ticks, lc, fresh, last_ok, loaded, signalled, hardware_vars,
                   apply_vars, status_vars, settings_vars, uncap_vars,
                   cli_vars>>

\* the profile of a successful TDP call among calls, else old
LastOk(calls, old) ==
    IF \E i \in DOMAIN calls : calls[i].ok
    THEN <<JStr(calls[CHOOSE i \in DOMAIN calls : calls[i].ok].profile)>>
    ELSE old

\* the assignments of one pass: c the settings, st the reading, ps the mode
\* after the test, r what set_governor did; then delay() starts
Commit(c, st, ps, r) ==
    /\ powersave' = ps
    /\ applied_tdp' = r.applied_tdp
    /\ force_show' = r.force_show
    /\ cpu_gov' = r.cpu
    /\ devfreq_gov' = r.dev
    /\ fresh' = FALSE
    /\ last_ok' = LastOk(r.calls, last_ok)
    /\ cycle' = [kind |-> "decided", st |-> st, point |-> c.powersave_point,
                 ps_before |-> powersave, fresh |-> fresh,
                 last_ok_before |-> last_ok, detect |-> c.detect_battery,
                 desired |-> c.desired_governor, battery |-> c.battery_governor,
                 tdps |-> c.tdps, res |-> Seen(r), left |-> 0]
    /\ pc' = IF r.crash THEN "crashed" ELSE "sleep"
    /\ ticks' = IF r.crash THEN 0 ELSE Period(ps)

\* the hysteresis test and the set_governor call that follows it
Apply(c, st, ps, env) ==
    Commit(c, st, ps,
           set_governor(TargetGovernor(ps, st, c.desired_governor,
                                       c.battery_governor),
                        c.tdps, host,
                        [applied_tdp |-> applied_tdp, force_show |-> force_show,
                         cpu |-> cpu_gov, dev |-> devfreq_gov], env))

\* the pass with settings c and reading st
Pass(c, st, env) == Apply(c, st, NextPowersave(powersave, st, c.powersave_point), env)

\* the settings are read, the reading is taken, the mode is updated and
\* set_governor is called
DecideApply ==
    /\ pc = "decide"
    /\ Truthy(current_config)
    /\ ~CycleConfig(current_config).crash
    /\ \E devs \in BatteryInputs, env \in Envs(host, DaemonOutcomes) :
         LET c == CycleConfig(current_config)
         IN  Pass(c, Reading(c.detect_battery, devs), env)
    /\ UNCHANGED <<host, cfg_file, current_config, last_config_mtime, lc,
                   loaded, signalled, apply_vars, status_vars, settings_vars,
                   uncap_vars,
                   cli_vars>>

Next ==
    \/ LoadSkip
    \/ LoadFail
    \/ LoadRead
    \/ LoadCommit
    \/ reload
    \/ WriteConfig
    \/ try_uncap_power
    \/ DecideIdle
    \/ DecideCrash
    \/ DecideApply

Spec == Init /\ [][Next]_vars

(***************************************************************************)
(* status() called on its own, on every enumeration of the devices.        *)
(***************************************************************************)
InitStatus ==
    /\ Boot
    /\ host = ArmBoard
    /\ cfg_file = [exists |-> FALSE, mtime |-> 0]
    /\ pc = "status"
    /\ st_devs \in DeviceSeqs
    /\ PL_UNCAP_MISSING = << >>
    /\ regs = CappedRegs

StatusCall ==
    /\ pc = "status"
    /\ st_result' = status(st_devs)
    /\ pc' = "status_done"
    /\ UNCHANGED <<host, daemon_vars, hardware_vars, apply_vars, st_devs, settings_vars,
                   uncap_vars,
                   cli_vars>>

NextStatus == StatusCall

SpecStatus == InitStatus /\ [][NextStatus]_vars

(***************************************************************************)
(* set_governor called on its own, again and again, while the control      *)
(* files may change from outside between the calls.                        *)
(***************************************************************************)
InitApply ==
    /\ Boot
    /\ host \in Hosts
    /\ cfg_file = [exists |-> FALSE, mtime |-> 0]
    /\ pc = "apply"
    /\ st_devs = << >>
    /\ PL_UNCAP_MISSING = << >>
    /\ regs = CappedRegs

\* the assignments of one direct call with inputs env and result r
Called(governor, tdps, env, r) ==
    /\ applied_tdp' = r.applied_tdp
    /\ force_show' = r.force_show
    /\ cpu_gov' = r.cpu
    /\ devfreq_gov' = r.dev
    /\ call' = [kind |-> "call", tdps |-> tdps, cpu_before |-> cpu_gov,
                dev_before |-> devfreq_gov,
                in_a_row |-> /\ prev.called
                             /\ ~disturbed
                             /\ SameValue(prev.governor, governor),
                prev_clean |-> prev.clean,
                prev_crashed |-> prev.crashed,
                env |-> env,
                res |-> Seen(r)]
    /\ prev' = [called |-> TRUE, governor |-> governor,
                clean |-> ~r.crash /\ r.failed = {}, crashed |-> r.crash]
    /\ disturbed' = FALSE

ApplyCall ==
    /\ pc = "apply"
    /\ \E g \in DOMAIN Targets,
          t \in IF HasBackend(host) THEN DOMAIN Tables ELSE {1},
          env \in Envs(host, FaultyOutcomes) :
         Called(Targets[g], Tables[t], env,
                set_governor(Targets[g], Tables[t], host,
                             [applied_tdp |-> applied_tdp,
                              force_show |-> force_show,
                              cpu |-> cpu_gov, dev |-> devfreq_gov], env))
    /\ pc' = "applied"
    /\ UNCHANGED <<host, daemon_vars, status_vars, settings_vars,
                   uncap_vars,
                   cli_vars>>

\* the caller goes on
Return ==
    /\ pc = "applied"
    /\ pc' = "apply"
    /\ call' = NoCall
    /\ UNCHANGED <<host, hardware_vars, prev, disturbed, daemon_vars,
                   status_vars, settings_vars,
                   uncap_vars,
                   cli_vars>>

\* something else writes a CPU governor file
ExternalCpuChange ==
    /\ pc = "apply"
    /\ \E p \in DOMAIN cpu_gov, v \in KernelGovernors :
         /\ cpu_gov[p] # v
         /\ cpu_gov' = [cpu_gov EXCEPT ![p] = v]
    /\ disturbed' = TRUE
    /\ UNCHANGED <<host, pc, call, devfreq_gov, force_show, applied_tdp, prev,
                   daemon_vars, status_vars, settings_vars,
                   uncap_vars,
                   cli_vars>>

\* something else writes a devfreq governor file
ExternalDevfreqChange ==
    /\ pc = "apply"
    /\ \E p \in DOMAIN devfreq_gov, v \in KernelGovernors :
         /\ devfreq_gov[p] # v
         /\ devfreq_gov' = [devfreq_gov EXCEPT ![p] = v]
    /\ disturbed' = TRUE
    /\ UNCHANGED <<host, pc, call, cpu_gov, force_show, applied_tdp, prev,
                   daemon_vars, status_vars, settings_vars,
                   uncap_vars,
                   cli_vars>>

NextApply ==
    \/ ApplyCall
    \/ ExternalCpuChange
    \/ ExternalDevfreqChange
    \/ Return

SpecApply == InitApply /\ [][NextApply]_vars

(***************************************************************************)
(* The settings read from one configuration document, on every tdp mapping *)
(* built from the values below.                                            *)
(***************************************************************************)
\* what a key of the tdp mapping can hold
TdpValues ==
    << JNum(30), JNum(0), JNum(-5), JText(<<"1", "5">>), JText(<<"x">>),
       JBool(TRUE), JNull, JArr(<< >>), JInf >>

\* the mapping in which key k holds TdpValues[ix[k]] and is missing when
\* ix[k] = 0
TdpObject(ix) ==
    JObj([k \in {k \in DOMAIN ix : ix[k] # 0} |-> TdpValues[ix[k]]])

InitSettings ==
    /\ Boot
    /\ host = ArmBoard
    /\ cfg_file = [exists |-> FALSE, mtime |-> 0]
    /\ pc = "settings"
    /\ st_devs = << >>
    /\ PL_UNCAP_MISSING = << >>
    /\ regs = CappedRegs

\* the statements of the loop body between the test of current_config and
\* the reading, with current_config = {"governor": "performance", "tdp": ...}
ReadSettings ==
    /\ pc = "settings"
    /\ \E ix \in [DOMAIN default_tdps -> 0..Len(TdpValues)] :
         /\ current_config' = JObj([governor |-> JStr("performance"),
                                    tdp |-> TdpObject(ix)])
         /\ settings' = [read |-> TRUE] @@ CycleConfig(current_config')
    /\ pc' = "settings_done"
    /\ UNCHANGED <<host, cfg_file, powersave, last_config_mtime, ticks, lc,
                   fresh, last_ok, cycle, loaded, signalled, hardware_vars,
                   apply_vars, status_vars, uncap_vars,
                   cli_vars>>

\* the next pass starts
SettingsDone ==
    /\ pc = "settings_done"
    /\ pc' = "settings"
    /\ current_config' = EmptyConfig
    /\ settings' = NoSettings
    /\ UNCHANGED <<host, cfg_file, powersave, last_config_mtime, ticks, lc,
                   fresh, last_ok, cycle, loaded, signalled, hardware_vars,
                   apply_vars, status_vars, uncap_vars,
                   cli_vars>>

NextSettings ==
    \/ ReadSettings
    \/ SettingsDone

SpecSettings == InitSettings /\ [][NextSettings]_vars

(***************************************************************************)
(* The start of main() up to the first passes of the loop, without a       *)
(* configuration file: on the Intel host with every combination of         *)
(* installed tools, register contents and failing tool invocation, and on  *)
(* the other hosts.                                                        *)
(***************************************************************************)
InitUncap ==
    /\ Boot
    /\ host \in Hosts
    /\ cfg_file = [exists |-> FALSE, mtime |-> 0]
    /\ pc = "init_load"
    /\ st_devs = << >>
    /\ IF Isi(host)
       THEN /\ \E found \in SUBSET AllTools :
                 PL_UNCAP_MISSING = MissingTools(found)
            /\ regs \in UncapRegs
       ELSE /\ PL_UNCAP_MISSING \in {MissingTools(AllTools), MissingTools({})}
            /\ regs = CappedRegs

NextUncap ==
    \/ LoadSkip
    \/ try_uncap_power
    \/ DecideIdle

SpecUncap == InitUncap /\ [][NextUncap]_vars

(***************************************************************************)
(* govctl_cli.py run again and again on the configuration file, by root    *)
(* and by another user.                                                    *)
(***************************************************************************)
InitCli ==
    /\ Boot
    /\ host = ArmBoard
    /\ cfg_file = [exists |-> TRUE, mtime |-> 1]
    /\ pc = "cli"
    /\ st_devs = << >>
    /\ PL_UNCAP_MISSING = << >>
    /\ regs = CappedRegs

\* one run of the tool
CliRun ==
    /\ pc = "cli"
    /\ \E argv \in CliArgv, euid \in {0, 1000} :
         LET out == cli_main(argv, euid, cli.file)
         IN  cli' = [file |-> out.file, argv |-> argv, euid |-> euid,
                     out |-> out]
    /\ pc' = "cli_done"
    /\ UNCHANGED <<host, daemon_vars, hardware_vars, apply_vars, status_vars,
                   settings_vars, uncap_vars>>

\* the shell prompt is back: the file stays, the run is forgotten
CliReturn ==
    /\ pc = "cli_done"
    /\ pc' = "cli"
    /\ cli' = [NoCli EXCEPT !.file = cli.file,
                            !.out = CliOut(0, FALSE, cli.file)]
    /\ UNCHANGED <<host, daemon_vars, hardware_vars, apply_vars, status_vars,
                   settings_vars, uncap_vars>>

NextCli ==
    \/ CliRun
    \/ CliReturn

SpecCli == InitCli /\ [][NextCli]_vars

(***************************************************************************)
(* The claims.                                                             *)
(***************************************************************************)
Decided == cycle.kind = "decided"
IsGovernor(g, name) == SameValue(g, JStr(name))

\* C1: hysteresis.  The mode changes only in a pass of the loop body;
\* Powersave is entered only on a reading <= powersave_point and left only
\* on a reading >= powersave_point + 10, and a reading strictly between the
\* two never changes the mode, whatever the readings before it were.
C1_Hysteresis ==
    [][ /\ (powersave /\ ~powersave') =>
              (cycle'.kind = "decided" /\ cycle'.st >= cycle'.point + 10)
        /\ (~powersave /\ powersave') =>
              (cycle'.kind = "decided" /\ cycle'.st <= cycle'.point)
        /\ ( /\ cycle'.kind = "decided"
             /\ cycle'.st > cycle'.point
             /\ cycle'.st < cycle'.point + 10 ) => (powersave' = powersave)
      ]_vars

\* a pass in Powersave whose reading lies strictly between the thresholds
C1_Witness ==
    /\ Decided /\ cycle.ps_before /\ powersave
    /\ cycle.st > cycle.point /\ cycle.st < cycle.point + 10

\* C2: a pass that starts in Normal with a reading <= powersave_point ends
\* in Powersave and calls set_governor("powersave"), whatever governor and
\* governor_battery are; with a reading > powersave_point it stays Normal.
C2_NormalPass ==
    (Decided /\ ~cycle.ps_before) =>
        IF cycle.st <= cycle.point
        THEN powersave /\ IsGovernor(cycle.res.governor, "powersave")
        ELSE ~powersave

\* Normal, reading at the threshold, neither configured governor is powersave
C2_Witness ==
    /\ Decided /\ ~cycle.ps_before /\ cycle.st = cycle.point /\ powersave
    /\ ~IsGovernor(cycle.desired, "powersave")
    /\ ~IsGovernor(cycle.battery, "powersave")

\* C3 (as amended): after a pass, the governor handed to set_governor is
\* "powersave" if the mode is Powersave; if the mode is Normal it is the
\* configured governor when the reading is 100 and governor_battery when
\* it is below 100, the pass that leaves Powersave included.
C3_TargetGovernor ==
    Decided =>
        IF powersave THEN IsGovernor(cycle.res.governor, "powersave")
        ELSE IF cycle.st = 100
             THEN SameValue(cycle.res.governor, cycle.desired)
             ELSE SameValue(cycle.res.governor, cycle.battery)

\* the pass that leaves Powersave on battery, with two different governors
C3_Witness ==
    /\ Decided /\ cycle.ps_before /\ ~powersave /\ cycle.st < 100
    /\ ~SameValue(cycle.desired, cycle.battery)
    /\ SameValue(cycle.res.governor, cycle.battery)

\* C3 as stated: the target is "powersave" exactly when the mode is
\* Powersave.
C3_Original ==
    Decided =>
        /\ C3_TargetGovernor
        /\ IsGovernor(cycle.res.governor, "powersave") <=> powersave

\* C4: with detect_battery_state false the reading is 100 whatever the
\* devices report, so the pass ends in Normal (from Normal and from
\* Powersave alike) and hands the configured governor to set_governor.
C4_DetectionOff ==
    (Decided /\ ~cycle.detect) =>
        /\ cycle.st = 100
        /\ ~powersave
        /\ SameValue(cycle.res.governor, cycle.desired)

\* detection was switched off while the daemon was in Powersave
C4_Witness == Decided /\ ~cycle.detect /\ cycle.ps_before /\ ~powersave

StatusDone == pc = "status_done"
Attributes == {"energy_now", "energy_full", "charge_now", "charge_full", "online"}

\* every attribute file of the device can be read
Readable(dev) == \A a \in Attributes : dev[a].state # "unreadable"

\* the device reports an online attribute that is a nonzero number
OnlineReported(dev) ==
    /\ Readable(dev)
    /\ dev.online.state = "text"
    /\ ParseInt(dev.online.text).ok
    /\ ParseInt(dev.online.text).val # 0

Plain(a) == a.state = "absent" \/ (a.state = "text" /\ ParseInt(a.text).ok)

\* the number in an attribute file, 0 when it is absent
Held(a) == IF a.state = "text" THEN ParseInt(a.text).val ELSE 0

\* a / b truncated toward zero
TruncDiv(a, b) == IF (a < 0) = (b < 0) THEN Abs(a) \div Abs(b) ELSE -(Abs(a) \div Abs(b))

\* now / full * 100, truncated: the percentage the claim gives one device,
\* from the energy pair if it is there, else from the charge pair, else
\* nothing (100 leaves the minimum alone)
ClaimedPercent(dev) ==
    IF Held(dev.energy_full) # 0
    THEN IF dev.energy_now.state = "text"
         THEN TruncDiv(Held(dev.energy_now) * 100, Held(dev.energy_full))
         ELSE 100
    ELSE IF Held(dev.charge_full) # 0 /\ dev.charge_now.state = "text"
    THEN TruncDiv(Held(dev.charge_now) * 100, Held(dev.charge_full))
    ELSE 100

\* the least of them over the eligible devices, and 100 if there is none
ClaimedReading(devs) ==
    LET ps == {100} \cup {ClaimedPercent(devs[i]) :
                            i \in {j \in DOMAIN devs : Eligible(devs[j])}}
    IN  CHOOSE m \in ps : \A q \in ps : m <= q

\* C6: with no eligible device online, status() returns the least capacity
\* percentage (now / full * 100 truncated, energy pair first, charge pair
\* otherwise) over the eligible devices, and 100 if no device gives one.
\* Stated for devices all of whose attribute files are absent or numeric.
C6_MinCapacity ==
    ( /\ StatusDone
      /\ \A i \in DOMAIN st_devs :
            /\ \A a \in Attributes : Plain(st_devs[i][a])
            /\ ~(Eligible(st_devs[i]) /\ OnlineReported(st_devs[i])) )
    => st_result = ClaimedReading(st_devs)

\* C6: one battery holding a fifth of its energy reads 19, not 20
C6_Witness ==
    /\ StatusDone
    /\ st_devs = <<EnergyBattery(BAT0, 1, 5)>>
    /\ st_result = 19

Called1 == call.kind = "call"
Writes == call.res.cpu_writes \cup call.res.dev_writes

\* C7 (as amended): set_governor hands a control file to write_text only
\* when the value read from it differs from the target; so a second call in
\* a row with the same governor and no outside change in between writes
\* nothing, provided every write of the first call took effect and was read
\* back.
C7_WritesOnlyDiffering ==
    Called1 =>
        /\ \A w \in call.res.cpu_writes : call.cpu_before[w[1]] # w[2]
        /\ \A w \in call.res.dev_writes : call.dev_before[w[1]] # w[2]
        /\ (call.in_a_row /\ call.prev_clean) => Writes = {}

\* the second of two clean calls with a governor the files did not hold at
\* boot
C7_Witness ==
    /\ Called1 /\ call.in_a_row /\ call.prev_clean
    /\ IsGovernor(call.res.governor, "powersave")
    /\ Writes = {}
    /\ \A p \in DOMAIN cpu_gov : cpu_gov[p] = "powersave"

\* C7 as stated: the second of two calls in a row with no outside change in
\* between writes nothing (the first call returned normally).
C7_Original ==
    (Called1 /\ call.in_a_row /\ ~call.prev_crashed) => Writes = {}

\* C8: in the first pass after the start and after every successful reload
\* set_governor logs "Applied governor" and, on a host with a TDP tool, the
\* tool is run again, even if nothing needs changing; and the pass clears
\* force_show.
C8_ForcedReapplication ==
    (Decided /\ cycle.fresh) =>
        /\ cycle.res.applied_log # << >>
        /\ HasBackend(host) => cycle.res.calls # << >>
        /\ ~force_show

\* C8: a first pass after a reload in which no control file needs changing
\* and the log line is written all the same
C8_Witness ==
    /\ Decided /\ cycle.fresh /\ last_config_mtime > 1
    /\ cycle.res.cpu_writes = {} /\ cycle.res.dev_writes = {}
    /\ cycle.res.applied_log # << >>
    /\ HasBackend(host) /\ cycle.res.calls # << >>

\* the marker applied_tdp names profile (<< >>: none)
MarkerIs(profile) ==
    IF profile = << >> THEN applied_tdp = << >>
    ELSE applied_tdp # << >> /\ SameValue(applied_tdp[1], profile[1])

\* C9: on a host with a TDP tool, between reloads, the tool is run in a
\* pass exactly when the target profile differs from the profile of the last
\* successful run (or none has succeeded yet), and the marker applied_tdp
\* always names the last successful run.
C9_TdpIdempotence ==
    (Decided /\ HasBackend(host)) =>
        /\ cycle.res.calls # << >>
             <=> \/ cycle.last_ok_before = << >>
                 \/ ~SameValue(cycle.last_ok_before[1], cycle.res.governor)
        /\ MarkerIs(last_ok)

\* C9: a failed run is tried again in the next pass with the same profile
C9_Witness ==
    /\ Decided /\ HasBackend(host) /\ ~cycle.fresh
    /\ cycle.last_ok_before = << >>
    /\ cycle.res.calls # << >>

ConservativeCall == Called1 /\ IsGovernor(call.res.governor, "conservative")

\* the sustained limit a TDP invocation carries, in watts
SustainedWatts(c) == IF c.tool = "raplctl" THEN c.long ELSE c.stapm \div 1000

\* C10: a call with the governor "conservative" on x86_64 writes
\* "powersave" to every CPU governor file that does not hold it, asks the
\* TDP tool for the profile "conservative" with the limit tdp.conservative,
\* logs and records "conservative"; on another architecture it writes
\* "conservative" to the CPU files.
C10_ConservativeOnX86 ==
    ConservativeCall =>
        LET written == IF Isx(host) THEN "powersave" ELSE "conservative"
        IN  /\ \A w \in call.res.cpu_writes : w[2] = written
            /\ ~call.res.crash =>
                 \A p \in DOMAIN call.cpu_before :
                    call.cpu_before[p] # written =>
                       <<p, written>> \in call.res.cpu_writes
            /\ \A i \in DOMAIN call.res.calls :
                 /\ call.res.calls[i].profile = "conservative"
                 /\ SustainedWatts(call.res.calls[i]) = call.tdps.conservative
                 /\ call.res.calls[i].ok =>
                      /\ applied_tdp # << >>
                      /\ IsGovernor(applied_tdp[1], "conservative")
            /\ \A i \in DOMAIN call.res.applied_log :
                 IsGovernor(call.res.applied_log[i], "conservative")

\* on x86_64: both CPU files written, the tool run with success, the log
\* line written
C10_Witness ==
    /\ ConservativeCall /\ Isx(host)
    /\ call.res.cpu_writes = {<<"cpu0", "powersave">>, <<"cpu1", "powersave">>}
    /\ call.res.calls # << >> /\ call.res.calls[1].ok
    /\ call.tdps.conservative # call.tdps.powersave
    /\ call.res.applied_log # << >>

SettingsRead == settings.read

\* the value converts to a positive integer: a number above zero, true, or
\* text that int() reads as a number above zero
ConvertsToPositive(j) ==
    \/ j.t = "num" /\ j.v > 0
    \/ j.t = "bool" /\ j.v
    \/ j.t = "text" /\ ParseInt(j.v).ok /\ ParseInt(j.v).val > 0

\* the integer it converts to
Converted(j) ==
    CASE j.t = "num" -> j.v
      [] j.t = "bool" -> 1
      [] j.t = "text" -> ParseInt(j.v).val

\* what the key takes, looking at nothing but the key's own entry
ClaimedTdp(tdp, key) ==
    IF key \in DOMAIN tdp.v /\ ConvertsToPositive(tdp.v[key])
    THEN Converted(tdp.v[key])
    ELSE default_tdps[key]

\* C11: for every configured tdp mapping a table results, in which each of
\* boost, performance, conservative and powersave holds its configured
\* value when that converts to a positive integer and its built-in default
\* otherwise, whatever the other keys hold.
C11_PerKeyDefaulting ==
    SettingsRead =>
        /\ ~settings.crash
        /\ \A key \in DOMAIN default_tdps :
             settings.tdps[key] = ClaimedTdp(current_config.v.tdp, key)

\* a table results in which performance is defaulted for -5, boost is
\* defaulted for text that is no number and conservative is as configured
C11_Witness ==
    /\ SettingsRead
    /\ ~settings.crash
    /\ "performance" \in DOMAIN current_config.v.tdp.v
    /\ SameValue(current_config.v.tdp.v.performance, JNum(-5))
    /\ "boost" \in DOMAIN current_config.v.tdp.v
    /\ SameValue(current_config.v.tdp.v.boost, JText(<<"x">>))
    /\ "conservative" \in DOMAIN current_config.v.tdp.v
    /\ SameValue(current_config.v.tdp.v.conservative, JNum(30))
    /\ settings.tdps = [boost |-> 50, performance |-> 900, conservative |-> 30,
                        powersave |-> 8]

IsValidName(g) == g.t = "str" /\ g.v \in VALID_CPU_GOVS

\* the document is an object and every field it does hold has a value of
\* the field's kind, so that only omissions are left to the defaults
OmitsOnly(cfg) ==
    /\ cfg.t = "obj"
    /\ "governor" \in DOMAIN cfg.v => IsValidName(cfg.v.governor)
    /\ "governor_battery" \in DOMAIN cfg.v => IsValidName(cfg.v.governor_battery)
    /\ "powersave_point" \in DOMAIN cfg.v => cfg.v.powersave_point.t = "num"
    /\ "tdp" \in DOMAIN cfg.v =>
           /\ cfg.v.tdp.t = "obj"
           /\ \A k \in DOMAIN cfg.v.tdp.v : cfg.v.tdp.v[k].t # "inf"

\* a step that is a pass of the loop body
PassStep == pc = "decide" /\ pc' # "decide"

\* the settings a decided pass worked with are all usable
UsableSnapshot(c) ==
    /\ IsValidName(c.desired)
    /\ IsValidName(c.battery)
    /\ c.point \in 0..80
    /\ \A k \in DOMAIN default_tdps : c.tdps[k] > 0
    /\ \/ SameValue(c.res.governor, c.desired)
       \/ SameValue(c.res.governor, c.battery)
       \/ IsGovernor(c.res.governor, "powersave")

\* C12: after a configuration document has been loaded, whatever keys it
\* omits, the next pass of the loop body works with a snapshot in which
\* every field is usable and powersave_point lies in [0,80], and calls the
\* applier with a governor of that snapshot.
C12_UsableSnapshot ==
    [][(PassStep /\ loaded /\ OmitsOnly(current_config)) =>
           (cycle'.kind = "decided" /\ UsableSnapshot(cycle'))]_vars

\* a pass on a loaded document that omits governor_battery and holds a
\* powersave_point above 80
C12_Witness ==
    /\ Decided
    /\ loaded
    /\ OmitsOnly(current_config)
    /\ "governor_battery" \notin DOMAIN current_config.v
    /\ current_config.v.powersave_point.v > 80
    /\ cycle.point = 80
    /\ IsGovernor(cycle.battery, "conservative")
    /\ cycle.tdps.performance = 30
    /\ cycle.tdps.powersave = 8

\* a step that is a poll of the configuration file that failed: the file
\* is missing, or reading or parsing it raised
FailedPoll == InLoad /\ cycle'.kind \in {"poll_failed", "poll_missing"}

\* C13: a failed configuration poll changes none of current_config,
\* force_show, applied_tdp, powersave and last_config_mtime, so that a file
\* that could not be read or parsed still differs from the remembered
\* modification time and is read again by the next poll.
C13_FailedPollKeepsState ==
    [][FailedPoll =>
           /\ UNCHANGED <<current_config, force_show, applied_tdp, powersave,
                          last_config_mtime>>
           /\ cycle'.kind = "poll_failed" =>
                  (cfg_file'.exists /\ cfg_file'.mtime # last_config_mtime')]_vars

\* a poll has just failed on a rewritten file while the daemon holds a
\* loaded snapshot, is in Powersave, has applied a TDP profile and has
\* cleared the force flag
C13_Witness ==
    /\ cycle.kind = "poll_failed"
    /\ loaded
    /\ Truthy(current_config)
    /\ powersave
    /\ ~force_show
    /\ applied_tdp # << >>
    /\ last_config_mtime # 0
    /\ cfg_file.mtime # last_config_mtime

\* C14: while no load of the configuration has succeeded, no step writes a
\* governor file or runs a TDP tool, and a pass of the loop body only
\* idles and goes back to polling; the first pass after a load has
\* succeeded calls the applier.
C14_IdleUntilLoaded ==
    [][/\ ~loaded =>
              /\ UNCHANGED <<cpu_gov, devfreq_gov, applied_tdp>>
              /\ cycle'.res = NoResult
       /\ (PassStep /\ ~loaded) => (cycle'.kind = "idle" /\ pc' = "loop_load")
       /\ (PassStep /\ loaded) => cycle'.kind = "decided"]_vars

\* the loop has just idled because nothing has been loaded: the file is
\* there but could not be parsed
C14_Witness ==
    /\ cycle.kind = "idle"
    /\ ~loaded
    /\ cfg_file.exists
    /\ pc = "loop_load"

\* a step with which a poll of the configuration file begins
PollBegins ==
    InLoad /\ cycle'.kind \in {"poll_same", "poll_missing", "poll_failed", "poll_read"}

\* C15: when SIGHUP has been delivered, at whatever point of the main loop,
\* the next poll that begins afterwards reads the configuration file if it
\* exists, even if its modification time is the one remembered, and a read
\* that completes sets the force flag.
C15_SignalForcesReload ==
    [][/\ (PollBegins /\ signalled /\ cfg_file.exists) =>
              cycle'.kind \in {"poll_read", "poll_failed"}
       /\ cycle'.kind = "poll_loaded" => force_show']_vars

\* a poll has just read a file whose modification time had been remembered
\* and that nobody rewrote: the signal made it stale
C15_Witness ==
    /\ cycle.kind = "poll_read"
    /\ loaded
    /\ last_config_mtime = 0
    /\ cfg_file.mtime = 1
    /\ lc.mtime = 1
    /\ ~force_show

\* a step that is the call of try_uncap_power
UncapStep == pc = "uncap" /\ pc' # "uncap"

\* the kinds of tool invocation, each of them a register operation: MSR
\* reads and writes, PCI configuration reads, physical-memory reads and
\* writes
RegisterOps == {"rdmsr", "wrmsr", "setpci", "devmem2_read", "devmem2_write"}

\* C16: when at least one required helper tool is missing, the uncap
\* routine invokes no tool at all (no MSR read or write, no PCI
\* configuration read, no physical-memory read or write), leaves every
\* register as it was and names each missing tool in its warning.
C16_NoPartialUncap ==
    [][(UncapStep /\ PL_UNCAP_MISSING # << >>) =>
           /\ uncap'.ops = << >>
           /\ regs' = regs
           /\ uncap'.outcome = "missing"
           /\ uncap'.warned = PL_UNCAP_MISSING]_vars

\* the routine has run with only setpci missing on a host whose limits it
\* would otherwise have changed
C16_Witness ==
    /\ uncap.outcome = "missing"
    /\ uncap.warned = <<"setpci">>
    /\ uncap.ops = << >>
    /\ regs.fault = "none"
    /\ 0 \in regs.mchbar
    /\ regs.msr = {15}
    /\ regs.low = {3, 15}
    /\ regs.high = {4}

\* a call of try_uncap_power that reaches the decision on the MMIO limit:
\* every tool is installed and works and MCHBAR is enabled
MmioStep ==
    UncapStep /\ PL_UNCAP_MISSING = << >> /\ regs.fault = "none" /\ 0 \in regs.mchbar

\* the physical-memory writes of the call, as <<offset, value>> pairs
MemWrites(u) ==
    {<<u.ops[i].offset, u.ops[i].value>> :
        i \in {j \in DOMAIN u.ops : u.ops[j].kind = "devmem2_write"}}

\* both halves are written as zero
BothZeroed(u) ==
    MemWrites(u) = {<<INTEL_PACKAGE_RAPL_LIMIT_0_0_0_MCHBAR_PCU, {}>>,
                    <<INTEL_PACKAGE_RAPL_LIMIT_0_0_0_MCHBAR_PCU + 4, {}>>}

\* C17: for every pair of words (low, high) read from the MMIO power-limit
\* register: both zero, nothing is written; bit 31 of high set and the PL1
\* enable bit of low or the PL2 enable bit of high set, the step fails and
\* nothing is written; in every other case, lock bit with neither enable
\* bit included, both halves are written as zero.
C17_MmioDecision ==
    [][MmioStep =>
           IF regs.low = {} /\ regs.high = {}
           THEN MemWrites(uncap') = {}
           ELSE IF 31 \in regs.high /\ (15 \in regs.low \/ 15 \in regs.high)
           THEN uncap'.outcome = "failed" /\ MemWrites(uncap') = {}
           ELSE /\ BothZeroed(uncap')
                /\ regs'.low = {}
                /\ regs'.high = {}]_vars

\* the call found an unlocked limit with PL1 enabled and zeroed both halves
C17_Witness ==
    /\ uncap.outcome = "complete"
    /\ BothZeroed(uncap)
    /\ \E i \in DOMAIN uncap.ops :
         /\ uncap.ops[i].kind = "devmem2_read"
         /\ uncap.ops[i].value = {3, 15}
    /\ regs.low = {}
    /\ regs.high = {}

\* C18: no error ends the main loop: whatever the configuration holds,
\* whatever read or write of a control file fails and whatever the TDP
\* tool returns, the process never leaves the loop by an exception.
C18_NoErrorTerminates == pc # "crashed"

\* a pass has gone on to delay() although a write to a control file failed
\* and the TDP tool exited with an error
C18_Witness ==
    /\ Decided
    /\ pc = "sleep"
    /\ cycle.res.failed # {}
    /\ \E i \in DOMAIN cycle.res.calls : ~cycle.res.calls[i].ok

\* C19: every value written to a devfreq governor file is "powersave" or
\* "performance": for the target "conservative" it is "powersave", for the
\* other two valid targets it is the target, on every architecture.
C19_DevfreqRemap ==
    Called1 =>
        \A w \in call.res.dev_writes :
            /\ w[2] \in {"powersave", "performance"}
            /\ w[2] = IF IsGovernor(call.res.governor, "conservative")
                      THEN "powersave" ELSE call.res.governor.v

\* set_governor("conservative") on the ARM board has written "powersave"
\* to the devfreq file and "conservative" to a CPU file
C19_Witness ==
    /\ Called1
    /\ ~Isx(host)
    /\ IsGovernor(call.res.governor, "conservative")
    /\ <<"gpu", "powersave">> \in call.res.dev_writes
    /\ <<"cpu0", "conservative">> \in call.res.cpu_writes

\* C20: every value written to a CPU governor file, and every profile the
\* TDP tool is run for, is one of powersave, conservative, performance,
\* whatever the configuration names as governor or governor_battery.
C20_OnlyValidNames ==
    Decided =>
        /\ \A w \in cycle.res.cpu_writes : w[2] \in VALID_CPU_GOVS
        /\ \A i \in DOMAIN cycle.res.calls :
               cycle.res.calls[i].profile \in VALID_CPU_GOVS

\* a pass whose target is no valid governor name has logged the error and
\* returned from set_governor
C20_Witness ==
    /\ Decided
    /\ cycle.res.invalid_log
    /\ ~cycle.res.crash
    /\ ~IsValidName(cycle.desired)

\* a step that is a direct call of set_governor
ApplyStep == pc = "apply" /\ pc' = "applied"

\* the paths among files that were handed to write_text in writes
Written(writes, files) == {p \in DOMAIN files : \E w \in writes : w[1] = p}

\* every file of before that differs from target is in writes, and every
\* written file that does not hold the target afterwards is in failed
EachPathOnItsOwn(before, after, target, writes, failed) ==
    /\ \A p \in DOMAIN before :
           before[p] # target.v => <<p, target.v>> \in writes
    /\ \A p \in Written(writes, before) : after[p] # target.v => p \in failed

\* C21: in one call of the applier that returns, every CPU and devfreq
\* control file that differs from its target is written, whatever happened
\* to the other files; a file whose write raised or that does not hold the
\* target afterwards is logged as failed; and failed files do not count as
\* a change: when every written file failed and the force flag is clear,
\* "Applied governor" is not logged.
C21_IndependentPaths ==
    [][(ApplyStep /\ ~call'.res.crash) =>
           /\ EachPathOnItsOwn(cpu_gov, cpu_gov',
                               CpuGovernor(call'.res.governor, host),
                               call'.res.cpu_writes, call'.res.failed)
           /\ EachPathOnItsOwn(devfreq_gov, devfreq_gov',
                               DevfreqGovernor(CpuGovernor(call'.res.governor,
                                                           host)),
                               call'.res.dev_writes, call'.res.failed)
           /\ (/\ ~force_show
               /\ Written(call'.res.cpu_writes, cpu_gov) \subseteq call'.res.failed
               /\ Written(call'.res.dev_writes, devfreq_gov) \subseteq call'.res.failed)
                  => call'.res.applied_log = << >>]_vars

\* a call in which the write to cpu0 failed and cpu1 and the devfreq file
\* were written all the same
C21_Witness ==
    /\ Called1
    /\ ~call.res.crash
    /\ call.res.failed = {"cpu0"}
    /\ "cpu1" \in Written(call.res.cpu_writes, cpu_gov)
    /\ "gpu" \in Written(call.res.dev_writes, devfreq_gov)
    /\ call.res.applied_log # << >>

\* the call just made, had every TDP tool invocation in it succeeded
HadToolSucceeded ==
    set_governor(call'.res.governor, call'.tdps, host,
                 [applied_tdp |-> applied_tdp, force_show |-> force_show,
                  cpu |-> cpu_gov, dev |-> devfreq_gov],
                 [call'.env EXCEPT !.rapl_ok = TRUE, !.ryzen_ok = TRUE])

\* a TDP tool invocation of the call failed
ToolFailed(r) == \E i \in DOMAIN r.calls : ~r.calls[i].ok

\* the writes, the failures and the files afterwards are those of s
SameApplication(s) ==
    /\ call'.res.cpu_writes = s.cpu_writes
    /\ call'.res.dev_writes = s.dev_writes
    /\ call'.res.failed = s.failed
    /\ call'.res.applied_log = s.applied_log
    /\ cpu_gov' = s.cpu
    /\ devfreq_gov' = s.dev

BoostLimit(base, boost) == Min(base * (100 + boost), 900 * 100)

\* value is the boost limit of the table in the unit (1: watts, 1000:
\* milliwatts) of the sustained limit, cut to a whole number of watts by int()
InUnit(value, unit, tdps, profile) ==
    LET exact == unit * BoostLimit(tdps[profile], tdps["boost"])
    IN  /\ exact - 100 * unit <= 100 * value
        /\ 100 * value <= exact

\* the tool invocations of the call
Invocations == IF call.res.crash THEN << >> ELSE call.res.calls

\* C23: in every TDP tool invocation the boost limit is
\* min(base * (1 + boost/100), 900) watts in the unit of the sustained limit
\* of that invocation: watts for raplctl, milliwatts for ryzenadj.
C23_BoostLimit ==
    Called1 =>
        \A i \in DOMAIN Invocations :
            LET c == Invocations[i]
            IN  IF c.tool = "raplctl"
                THEN /\ c.long = call.tdps[c.profile]
                     /\ InUnit(c.short, 1, call.tdps, c.profile)
                ELSE /\ c.stapm = 1000 * call.tdps[c.profile]
                     /\ c.slow = c.stapm
                     /\ InUnit(c.fast, 1000, call.tdps, c.profile)

\* ryzenadj was run for conservative with the default table: 13000 mW
\* sustained and a fast limit of 1900
C23_Witness ==
    /\ Called1
    /\ call.tdps = default_tdps
    /\ \E i \in DOMAIN Invocations :
         /\ Invocations[i].tool = "ryzenadj"
         /\ Invocations[i].profile = "conservative"
         /\ Invocations[i].stapm = 13000
         /\ Invocations[i].fast = 1900

\* a step that ends a load_config called from delay() that read the file
SleepLoad == pc = "load_commit" /\ lc.ret = "sleep" /\ pc' # "load_commit"

\* the settings a decided pass worked with are those of configuration cfg
RunsWith(c, cfg) ==
    LET s == CycleConfig(cfg)
    IN  /\ c.desired = s.desired_governor
        /\ c.battery = s.battery_governor
        /\ c.detect = s.detect_battery
        /\ c.point = s.powersave_point
        /\ c.tdps = s.tdps

\* C24: a configuration change cuts the sleep between two cycles short: a
\* load of the file that succeeds during delay() ends the sleep at that
\* one-second tick whatever number of ticks is left, the loop goes from
\* there to its next pass without sleeping, and a decision cycle runs with
\* the configuration loaded last.
C24_ChangeCutsSleep ==
    [][/\ SleepLoad =>
              (pc' = "loop_load" /\ ticks' = 0 /\ force_show'
               /\ cycle'.left = ticks)
       /\ pc = "loop_load" => pc' \in {"loop_load", "load_commit", "decide"}
       /\ (pc = "load_commit" /\ lc.ret = "loop_load") =>
              pc' \in {"load_commit", "decide"}
       /\ (PassStep /\ cycle'.kind = "decided") =>
              RunsWith(cycle', current_config)]_vars

\* a rewritten file was loaded at the first tick of a Normal sleep, with 20
\* ticks left, and the loop is back at its top
C24_Witness ==
    /\ cycle.kind = "poll_loaded"
    /\ cycle.left = 20
    /\ ~powersave
    /\ pc = "loop_load"
    /\ force_show
    /\ last_config_mtime = cfg_file.mtime

\* a step that is the delivery of SIGHUP since the last poll
ReloadStep == ~signalled /\ signalled'

\* a step that reaches the hardware: a control file changes, a TDP tool
\* is run or a register operation is issued
HardwareStep ==
    \/ cpu_gov' # cpu_gov
    \/ devfreq_gov' # devfreq_gov
    \/ cycle'.res.calls # << >>
    \/ regs' # regs
    \/ uncap'.ops # uncap.ops

\* C25: the reload signal handler changes only the remembered modification
\* time: it writes no governor, runs no TDP tool and touches no register,
\* and leaves the configuration snapshot, the force flag, the last-applied
\* TDP marker and the power mode as they are; every step that reaches the
\* hardware is a pass of the main loop or the uncap call before it.
C25_ReloadOnlyMarks ==
    [][/\ ReloadStep =>
              /\ last_config_mtime' = 0
              /\ ~HardwareStep
              /\ UNCHANGED <<current_config, force_show, applied_tdp,
                             powersave, cfg_file, pc, ticks, lc>>
       /\ HardwareStep => (PassStep \/ UncapStep)]_vars

\* the signal has arrived during the sleep of a daemon that holds a loaded
\* snapshot, is in Powersave, has applied a TDP profile and has cleared
\* the force flag
C25_Witness ==
    /\ signalled
    /\ cycle = NoCycle
    /\ pc = "sleep"
    /\ last_config_mtime = 0
    /\ loaded
    /\ Truthy(current_config)
    /\ ~force_show
    /\ powersave
    /\ applied_tdp # << >>

\* a call of try_uncap_power that read the package power-limit MSR
MsrStep == UncapStep /\ PL_UNCAP_MISSING = << >> /\ regs.fault # "read_msr"

\* the MSR writes among the tool invocations of u, in order
MsrWrites(u) == SelectSeq(u.ops, LAMBDA o : o.kind = "wrmsr")

\* C26: for every value v read from the package power-limit MSR: with bit
\* 15 (PL1 enable) and bit 47 (PL2 enable) both set in v no MSR write
\* happens; otherwise exactly one write is issued, of v with both bits set
\* and every other bit as in v.
C26_MsrEnable ==
    [][MsrStep =>
           IF {15, 47} \subseteq regs.msr
           THEN MsrWrites(uncap') = << >> /\ regs'.msr = regs.msr
           ELSE /\ Len(MsrWrites(uncap')) = 1
                /\ MsrWrites(uncap')[1].offset = INTEL_MSR_PKG_POWER_LIMIT
                /\ {15, 47} \subseteq MsrWrites(uncap')[1].value
                /\ MsrWrites(uncap')[1].value \ {15, 47} = regs.msr \ {15, 47}
                /\ regs.fault # "write_msr" =>
                       regs'.msr = MsrWrites(uncap')[1].value]_vars

\* the MSR held bits 3 and 47; one write of bits 3, 15 and 47 was issued
\* and the register holds them
C26_Witness ==
    /\ uncap.outcome # "none"
    /\ Len(MsrWrites(uncap)) = 1
    /\ MsrWrites(uncap)[1].value = {3, 15, 47}
    /\ regs.msr = {3, 15, 47}

\* the tool invocation a fault makes fail: its kind and its register
FaultOp(f) ==
    CASE f = "read_msr" -> <<"rdmsr", INTEL_MSR_PKG_POWER_LIMIT>>
      [] f = "write_msr" -> <<"wrmsr", INTEL_MSR_PKG_POWER_LIMIT>>
      [] f = "get_mchbar" -> <<"setpci", MchbarRegister>>
      [] f = "read_low" ->
             <<"devmem2_read", INTEL_PACKAGE_RAPL_LIMIT_0_0_0_MCHBAR_PCU>>
      [] f = "read_high" ->
             <<"devmem2_read", INTEL_PACKAGE_RAPL_LIMIT_0_0_0_MCHBAR_PCU + 4>>
      [] f = "write_low" ->
             <<"devmem2_write", INTEL_PACKAGE_RAPL_LIMIT_0_0_0_MCHBAR_PCU>>
      [] f = "write_high" ->
             <<"devmem2_write", INTEL_PACKAGE_RAPL_LIMIT_0_0_0_MCHBAR_PCU + 4>>
      [] OTHER -> <<"", 0>>

\* the invocation k is among those of u
Issued(u, k) ==
    \E i \in DOMAIN u.ops : u.ops[i].kind = k[1] /\ u.ops[i].offset = k[2]

\* the invocation k is the last one of u
LastIs(u, k) ==
    /\ u.ops # << >>
    /\ u.ops[Len(u.ops)].kind = k[1]
    /\ u.ops[Len(u.ops)].offset = k[2]

\* the step of the routine u that fails on the registers r, if any: the
\* invocation that fails, the PCI read that finds MCHBAR disabled, or the
\* read of the high word that finds the limit locked and enabled
FailedAt(u, r) ==
    IF r.fault # "none" /\ Issued(u, FaultOp(r.fault)) THEN FaultOp(r.fault)
    ELSE IF Issued(u, FaultOp("get_mchbar")) /\ 0 \notin r.mchbar
    THEN FaultOp("get_mchbar")
    ELSE IF /\ Issued(u, FaultOp("read_high"))
            /\ 31 \in r.high
            /\ (15 \in r.low \/ 15 \in r.high)
    THEN FaultOp("read_high")
    ELSE <<"", 0>>

\* C27: a failure at any step of the uncap routine (MSR read or write, PCI
\* read, MCHBAR enable bit clear, physical-memory read or write, locked
\* MMIO limit) is the last thing the routine does and gives a warning and
\* nothing else; the routine never keeps the loop from its first pass; it
\* runs at most once, before the first pass, and on Intel x86_64 only.
C27_UncapNeverBlocks ==
    [][/\ UncapStep =>
              /\ Isi(host)
              /\ uncap = NoUncap
              /\ pc' = "loop_load"
              /\ uncap'.outcome \in {"missing", "failed", "complete"}
              /\ FailedAt(uncap', regs) # <<"", 0>> =>
                     /\ LastIs(uncap', FailedAt(uncap', regs))
                     /\ uncap'.outcome = "failed"
              /\ uncap'.outcome = "failed" =>
                     FailedAt(uncap', regs) # <<"", 0>>
       /\ (uncap' # uncap \/ regs' # regs) => UncapStep
       /\ (pc' = "uncap" /\ pc # "uncap") => pc = "init_load"
       /\ pc # "init_load" => pc' # "init_load"
       /\ pc = "loop_load" => pc' \in {"loop_load", "decide"}
       /\ (PassStep /\ Isi(host)) => uncap.outcome # "none"
       /\ pc' # "crashed"]_vars

\* the write of the low MMIO word failed after the MSR had been written;
\* the routine warned and the loop has made a pass
C27_Witness ==
    /\ cycle.kind = "idle"
    /\ pc = "loop_load"
    /\ uncap.outcome = "failed"
    /\ regs.fault = "write_low"
    /\ LastIs(uncap, FaultOp("write_low"))
    /\ Issued(uncap, FaultOp("write_msr"))
    /\ regs.msr = {3, 15, 47}
    /\ regs.low = {3, 15}

\* C28: status() always returns an integer in [0,100], for every set of
\* power-supply devices and every combination of numeric attribute values,
\* a device whose now value exceeds its full value included.
C28_ReadingInRange == StatusDone => st_result \in 0..100

\* a battery whose energy_now reads -1 of 5 gives -19
C28_Witness ==
    /\ StatusDone
    /\ st_devs = <<EnergyBattery(BAT0, -1, 5)>>
    /\ st_result = -19

\* the run of the tool is over
CliDone == pc = "cli_done"

\* the run was given -p with a percentage the tool accepts, by root, and
\* not -G
PercentAccepted ==
    /\ cli.argv.powersave_percent # << >>
    /\ PercentType(cli.argv.powersave_percent[1]).ok
    /\ ~cli.argv.get_governor
    /\ cli.euid = 0

\* C29: the tool stores every powersave percentage it accepts: for every
\* value v in 0..80 given with -p, the configuration is saved with
\* powersave_point = v and the service is asked to reload.
C29_StoresEveryPercent ==
    (CliDone /\ PercentAccepted) =>
        /\ cli.out.saved
        /\ cli.out.reloaded
        /\ cli.file.powersave_point =
               PercentType(cli.argv.powersave_percent[1]).val

\* root ran the tool with -p 0 alone on a file holding 20: nothing was
\* saved, the help was printed and the file still holds 20
C29_Witness ==
    /\ CliDone
    /\ cli.euid = 0
    /\ cli.argv = [NoArgv EXCEPT !.powersave_percent = <<NumText(0)>>]
    /\ ~cli.out.saved
    /\ ~cli.out.reloaded
    /\ cli.out.help
    /\ cli.file.powersave_point = 20

====
